---- MODULE Spec2Model ----
(***************************************************************************)
(* Model of the person-emoji qualification engine of emojic-gen            *)
(* (emoji/people.rs, emoji/people/groups.rs, emoji/people/qualifier.rs):   *)
(* a family record's variants map is classified along hair, people and     *)
(* tone into qualified trees (scrub), which are then projected into        *)
(* accessor lists.                                                         *)
(*                                                                         *)
(* Encoding.  Option<T> of an attribute slot of a PersonKind is 0 (None)   *)
(* or the 1-based index of the value in T::ALL; a (primary, secondary)     *)
(* slot is a pair <<a, b>> with <<0, 0>> for None and b = 0 for an absent  *)
(* secondary.  A PersonKindSelector slot is Option<Option<_>>: <<>> is     *)
(* None (all values) and <<v>> is Some(v) with v a PersonKind slot.        *)
(***************************************************************************)
EXTENDS Integers, Sequences, FiniteSets, TLC

VARIABLES
    debug_assertions, \* build profile: TRUE when debug_assert! is compiled in
    hash_seed,        \* iteration order of this process's HashMaps
    identifier,       \* PersonEmoji.identifier of the family, as words
    variants,         \* PersonEmoji.variants: PersonKind -> grapheme
    extra,            \* single lines appended after the regular block
    pc,               \* "collect" | "scrubbed" | "rescrubbed" | "rendered" | "aborted"
    out,              \* result of scrub
    again,            \* result of scrubbing the only record of out once more
    lists,            \* full_emoji_list of every record of out
    defaults,         \* default_variants of every record of out
    call,             \* arguments of one call of Qualifier::validate
    result,           \* what that call returned
    subgroup,         \* a Subgroup: its emojis, constants and person_emojis
    before,           \* the Subgroup as it was when sort was called
    rerun,            \* what sort makes of `before` in another process
    parser,           \* an EmojiTextParser: original, next_pos, emoji_fragment_start
    fragments         \* the items the parser has yielded

vars == <<debug_assertions, hash_seed, identifier, variants, extra, pc,
          out, again, lists, defaults, call, result, subgroup, before, rerun,
          parser, fragments>>

-----------------------------------------------------------------------------
(* Attribute vocabularies (src/src/emojis/attributes.rs) *)

ToneALL == 1..5
GenderALL == 1..2
PairALL == 1..3
OneOrTwoALL == 1..5
HairALL == 1..6

ToneDebug == <<"Light", "MediumLight", "Medium", "MediumDark", "Dark">>
HairDebug == <<"Beard", "Blond", "Red", "Curly", "White", "Bald">>
GenderDebug == <<"Male", "Female">>
PairDebug == <<"Males", "Mixed", "Females">>

\* OneOrTwo::One(g) is g, OneOrTwo::Two(p) is 2 + p (the order of OneOrTwo::ALL)
One(g) == g
Two(p) == 2 + p
IsOne(a) == a \in 1..2
IsTwo(a) == a \in 3..5

\* names as word tokens: "light skin tone" is <<"light", "skin", "tone">>
Tone_name(t) ==
    << <<"light", "medium-light", "medium", "medium-dark", "dark">>[t],
       "skin", "tone" >>

Hair_name(h) ==
    CASE h = 1 -> <<"beard">>
      [] h = 2 -> <<"blond", "hair">>
      [] h = 3 -> <<"red", "hair">>
      [] h = 4 -> <<"curly", "hair">>
      [] h = 5 -> <<"white", "hair">>
      [] h = 6 -> <<"no", "hair">>

OneOrTwo_name_adults(a) ==
    CASE a = 1 -> <<"man">>
      [] a = 2 -> <<"woman">>
      [] a = 3 -> <<"men">>
      [] a = 4 -> <<"man", "&", "woman">>
      [] a = 5 -> <<"women">>

OneOrTwo_name_children(a) ==
    CASE a = 1 -> <<"boy">>
      [] a = 2 -> <<"girl">>
      [] a = 3 -> <<"boys">>
      [] a = 4 -> <<"boy", "&", "girl">>
      [] a = 5 -> <<"girls">>

fancy_source(a) ==
    IF IsOne(a) THEN "Gender::" \o GenderDebug[a]
    ELSE "Pair::" \o PairDebug[a - 2]

fancy_full_source(a) ==
    IF IsOne(a) THEN "OneOrTwo::One(Gender::" \o GenderDebug[a] \o ")"
    ELSE "OneOrTwo::Two(Pair::" \o PairDebug[a - 2] \o ")"

-----------------------------------------------------------------------------
(* PersonKind and PersonKindSelector (groups.rs) *)

NoPair == <<0, 0>>

PersonKind(h, p, t) == [hair |-> h, people |-> p, tone |-> t]

PairSlots == {NoPair} \cup ((1..5) \X (0..5))

\* default_level with a secondary slot counted only beside its primary
default_level_beside_primary(kind) ==
      (IF kind.hair = 0 THEN 1 ELSE 0)
    + 2 * (IF kind.people # NoPair /\ kind.people[2] = 0 THEN 1 ELSE 0)
    + 4 * (IF kind.people = NoPair THEN 1 ELSE 0)
    + 8 * (IF kind.tone # NoPair /\ kind.tone[2] = 0 THEN 1 ELSE 0)
    + 16 * (IF kind.tone = NoPair THEN 1 ELSE 0)

default_level(kind) ==
      (IF kind.hair = 0 THEN 1 ELSE 0)
    + 2 * (IF kind.people[2] = 0 THEN 1 ELSE 0)
    + 4 * (IF kind.people = NoPair THEN 1 ELSE 0)
    + 8 * (IF kind.tone[2] = 0 THEN 1 ELSE 0)
    + 16 * (IF kind.tone = NoPair THEN 1 ELSE 0)

\* impl From<PersonKind> for PersonKindSelector
SelectorFrom(kind) ==
    [hair |-> <<kind.hair>>, people |-> <<kind.people>>, tone |-> <<kind.tone>>]

\* selects with `== Some(true)` for `!= Some(false)`: a wildcard slot
\* selects nothing
selects_only_concrete(sel, kind) ==
    /\ sel.hair = <<kind.hair>>
    /\ sel.people = <<kind.people>>
    /\ sel.tone = <<kind.tone>>

selects(sel, kind) ==
    /\ (sel.hair = <<>> \/ sel.hair[1] = kind.hair)
    /\ (sel.people = <<>> \/ sel.people[1] = kind.people)
    /\ (sel.tone = <<>> \/ sel.tone[1] = kind.tone)

\* #[derive(Ord)] of PersonKindSelector: lexicographic over (hair, people,
\* tone) with None < Some(None) < Some(Some(_)), as one integer
SlotOrd(s) == IF s = <<>> THEN <<0, 0>> ELSE <<s[1][1] + 1, s[1][2] + 1>>

SelectorOrd(sel) ==
    LET h == IF sel.hair = <<>> THEN 0 ELSE sel.hair[1] + 1
        p == SlotOrd(sel.people)
        t == SlotOrd(sel.tone)
    IN  (((h * 7 + p[1]) * 7 + p[2]) * 7 + t[1]) * 7 + t[2]

MaxSelectorOrd == 8 * 7 * 7 * 7 * 7

-----------------------------------------------------------------------------
(* QualifierSets (qualifier.rs).  A set is the Vec of required values, its *)
(* type_name, the name selecting its accessor generators, and whether it   *)
(* carries a kind_translator.                                              *)

QualifierSet(set, type_name, gen, translator) ==
    [set |-> set, type_name |-> type_name, gen |-> gen, translator |-> translator]

\* position i of a flat_map over ALL x ALL of five values: the outer and the
\* inner value
Outer(i) == ((i - 1) \div 5) + 1
Inner(i) == ((i - 1) % 5) + 1

RECURSIVE SeqFilter(_, _)
SeqFilter(s, keep) ==
    IF s = <<>> THEN <<>>
    ELSE (IF Head(s) \in keep THEN <<Head(s)>> ELSE <<>>) \o SeqFilter(Tail(s), keep)

ToneWithSecondary(t, s) == <<t, IF t # s THEN s ELSE 0>>
TonePairOf(t, s) == <<t, s>>

tone_with_secondary == [i \in 1..25 |-> ToneWithSecondary(Outer(i), Inner(i))]
tone_reduced ==
    SeqFilter([i \in 1..25 |-> TonePairOf(Outer(i), Inner(i))],
              {<<t, s>> \in ToneALL \X ToneALL : t < s})
tone_only_primary == [t \in 1..5 |-> <<t, 0>>]

Tone_supported_sets ==
    << QualifierSet(tone_with_secondary, "TonePair", "TonePair", TRUE),
       QualifierSet(tone_reduced, "TonePairReduced", "TonePairReduced", FALSE),
       QualifierSet(tone_only_primary, "Tone", "Tone", FALSE) >>

people_pseudo_one == <<<<Two(1), 0>>, <<Two(3), 0>>>>
people_only_one == [g \in 1..2 |-> <<One(g), 0>>]
people_only_two == [p \in 1..3 |-> <<Two(p), 0>>]
people_only_primary == [a \in 1..5 |-> <<a, 0>>]
people_with_secondary == [i \in 1..25 |-> TonePairOf(Outer(i), Inner(i))]

People_supported_sets ==
    << QualifierSet(people_with_secondary, "Family", "Family", FALSE),
       QualifierSet(people_only_primary, "OneOrTwo", "OneOrTwo", FALSE),
       QualifierSet(people_only_two, "Pair", "Pair", FALSE),
       QualifierSet(people_only_one, "Gender", "Gender", FALSE),
       QualifierSet(people_pseudo_one, "Gender", "PseudoGender", FALSE) >>

Hair_supported_sets ==
    << QualifierSet([h \in 1..6 |-> h], "Hair", "Hair", FALSE) >>

supported_sets(dim) ==
    CASE dim = "hair" -> Hair_supported_sets
      [] dim = "people" -> People_supported_sets
      [] dim = "tone" -> Tone_supported_sets

\* The accessor a generator returns when it panics (unwrap of None, panic!,
\* or a failed debug_assert! in a debug build)
Panic == "<panic>"

DebugAssert(cond, value) ==
    IF debug_assertions /\ ~cond THEN Panic ELSE value

TonePairSource(a, b) ==
    "tone_pair(TonePair{left: Tone::" \o ToneDebug[a] \o ", right: Tone::"
        \o ToneDebug[b] \o " })"

ToneAccess(a, b) ==
    IF a # b THEN "tone((Tone::" \o ToneDebug[a] \o ", Tone::" \o ToneDebug[b] \o "))"
    ELSE "tone(Tone::" \o ToneDebug[a] \o ")"

const_access_generator(gen, v) ==
    CASE gen = "TonePair" ->
            IF v[2] = 0 THEN Panic ELSE TonePairSource(v[1], v[2])
      [] gen = "TonePairReduced" ->
            IF v[2] # 0 THEN TonePairSource(v[1], v[2]) ELSE TonePairSource(v[1], v[1])
      [] gen = "Tone" ->
            DebugAssert(v[2] = 0, "tone(Tone::" \o ToneDebug[v[1]] \o ")")
      [] gen = "Family" ->
            IF v[2] = 0 THEN Panic
            ELSE "family(Family{parents: " \o fancy_full_source(v[1])
                    \o ", children: " \o fancy_full_source(v[2]) \o " })"
      [] gen = "OneOrTwo" ->
            DebugAssert(v[2] = 0,
                "one_or_more(\"" \o fancy_full_source(v[1]) \o "\")")
      [] gen = "Pair" ->
            DebugAssert(v[2] = 0,
                IF IsTwo(v[1]) THEN "pair(Pair::" \o PairDebug[v[1] - 2] \o ")"
                ELSE Panic)
      [] gen = "Gender" ->
            DebugAssert(v[2] = 0,
                IF IsOne(v[1]) THEN "gender(Gender::" \o GenderDebug[v[1]] \o ")"
                ELSE Panic)
      [] gen = "PseudoGender" ->
            DebugAssert(v[2] = 0,
                CASE v[1] = Two(1) -> "gender(Gender::Male)"
                  [] v[1] = Two(3) -> "gender(Gender::Female)"
                  [] OTHER -> Panic)
      [] gen = "Hair" -> "hair(Hair::" \o HairDebug[v] \o ")"

access_generator(gen, v) ==
    CASE gen = "TonePair" ->
            IF v[2] = 0 THEN Panic ELSE ToneAccess(v[1], v[2])
      [] gen = "TonePairReduced" ->
            IF v[2] # 0 THEN ToneAccess(v[1], v[2]) ELSE ToneAccess(v[1], v[1])
      [] gen = "Tone" ->
            DebugAssert(v[2] = 0, "tone(Tone::" \o ToneDebug[v[1]] \o ")")
      [] gen = "Family" ->
            IF v[2] = 0 THEN Panic
            ELSE "gender((" \o fancy_source(v[1]) \o ", " \o fancy_source(v[2]) \o "))"
      [] gen = "OneOrTwo" ->
            DebugAssert(v[2] = 0, "gender(\"" \o fancy_source(v[1]) \o "\")")
      [] gen = "Pair" ->
            DebugAssert(v[2] = 0,
                IF IsTwo(v[1]) THEN "gender(Pair::" \o PairDebug[v[1] - 2] \o ")"
                ELSE Panic)
      [] gen = "Gender" ->
            DebugAssert(v[2] = 0,
                IF IsOne(v[1]) THEN "gender(Gender::" \o GenderDebug[v[1]] \o ")"
                ELSE Panic)
      [] gen = "PseudoGender" ->
            DebugAssert(v[2] = 0,
                CASE v[1] = Two(1) -> "gender(Gender::Male)"
                  [] v[1] = Two(3) -> "gender(Gender::Female)"
                  [] OTHER -> Panic)
      [] gen = "Hair" -> "hair(Hair::" \o HairDebug[v] \o ")"

\* kind_translator that leaves a lone tone as it is
kind_translator_keeps_lone(sel) == sel

\* the kind_translator of the TonePair set: a lone tone becomes (t, t)
kind_translator(sel) ==
    IF sel.tone # <<>> /\ sel.tone[1] # NoPair /\ sel.tone[1][2] = 0
    THEN [sel EXCEPT !.tone = << <<sel.tone[1][1], sel.tone[1][1]>> >>]
    ELSE sel

\* TonePair::to_id: left as usize * 5 + right as usize (Light is 0)
TonePair_to_id(left, right) == (left - 1) * 5 + (right - 1)

\* From<Tone> for TonePair, From<(Tone, Tone)> for TonePair
TonePair_from_tone(both) == <<both, both>>

\* With<TonePair, T>::tone_pair on the Vec of entries generated from a
\* node's subs: &self.entries[tone_pair.to_id()]
With_tone_pair(entries, tone_pair) ==
    entries[TonePair_to_id(tone_pair[1], tone_pair[2]) + 1]

-----------------------------------------------------------------------------
(* PersonQualified trees and Qualifier::validate / qualify (qualifier.rs) *)

Leaf(kind) == [leaf |-> kind]
Node(def, subs, type_name) == [def |-> def, subs |-> subs, type_name |-> type_name]
IsLeaf(tree) == "leaf" \in DOMAIN tree

Entry(sel, tree) == [sel |-> sel, tree |-> tree]

\* Position of a key in the iteration order of a HashMap of this process
HashOrd(sel) ==
    IF hash_seed = 0 THEN SelectorOrd(sel) ELSE MaxSelectorOrd - SelectorOrd(sel)

\* The elements of S as a sequence ascending in code (codes are distinct)
SortPairs(P) ==
    [i \in 1..Cardinality(P) |->
        (CHOOSE p \in P : Cardinality({q \in P : q[1] < p[1]}) = i - 1)[2]]

get_selector(dim, sel) == sel[dim]
set_selector(dim, sel, value) == [sel EXCEPT ![dim] = value]

NoneOf(dim) == IF dim = "hair" THEN 0 ELSE NoPair

\* unwrap().unwrap() of a selector slot, handed to a generator
ConstAccessor(qs, dim, k) ==
    LET slot == get_selector(dim, k)
    IN  IF slot = <<>> \/ slot[1] = NoneOf(dim) THEN Panic
        ELSE const_access_generator(qs.gen, slot[1])

PubAccessor(qs, dim, k) ==
    LET slot == get_selector(dim, k)
    IN  IF slot = <<>> \/ slot[1] = NoneOf(dim) THEN Panic
        ELSE access_generator(qs.gen, slot[1])

\* JoinEntries without entries.remove(&def_selector): the default stays
\* among the subs
JoinEntries_keep_def(dim, gen, entries, qs) ==
    LET def_selector == set_selector(dim, gen, <<NoneOf(dim)>>)
        defs == {e \in entries : e.sel = def_selector}
        def == IF defs = {} THEN <<>> ELSE <<(CHOOSE e \in defs : TRUE).tree>>
        key(e) == IF qs.translator THEN kind_translator(e.sel) ELSE e.sel
        code(e) == SelectorOrd(key(e)) * (MaxSelectorOrd + 1) + HashOrd(e.sel)
        sorted == SortPairs({<<code(e), e>> : e \in entries})
        subs == [i \in 1..Len(sorted) |->
                    [const_acc |-> ConstAccessor(qs, dim, key(sorted[i])),
                     pub_acc |-> PubAccessor(qs, dim, key(sorted[i])),
                     sub |-> sorted[i].tree]]
    IN  Node(def, subs, qs.type_name)

\* lines 118-148: the bucket `entries` joined into one node under set qs
JoinEntries(dim, gen, entries, qs) ==
    LET def_selector == set_selector(dim, gen, <<NoneOf(dim)>>)
        defs == {e \in entries : e.sel = def_selector}
        def == IF defs = {} THEN <<>> ELSE <<(CHOOSE e \in defs : TRUE).tree>>
        rest == entries \ defs
        key(e) == IF qs.translator THEN kind_translator(e.sel) ELSE e.sel
        \* sort_by_key is stable: equal keys stay in iteration order
        code(e) == SelectorOrd(key(e)) * (MaxSelectorOrd + 1) + HashOrd(e.sel)
        sorted == SortPairs({<<code(e), e>> : e \in rest})
        subs == [i \in 1..Len(sorted) |->
                    [const_acc |-> ConstAccessor(qs, dim, key(sorted[i])),
                     pub_acc |-> PubAccessor(qs, dim, key(sorted[i])),
                     sub |-> sorted[i].tree]]
    IN  Node(def, subs, qs.type_name)

\* SetPresent with `any` for `all`: one value of the set suffices
SetPresent_any(dim, gen, entries, qs) ==
    \E i \in 1..Len(qs.set) :
        \E e \in entries : e.sel = set_selector(dim, gen, <<qs.set[i]>>)

SetPresent(dim, gen, entries, qs) ==
    \A i \in 1..Len(qs.set) :
        \E e \in entries : e.sel = set_selector(dim, gen, <<qs.set[i]>>)

\* validate_from walking the sets from the last to the first
RECURSIVE validate_from_last_first(_, _, _, _)
validate_from_last_first(dim, gen, entries, i) ==
    LET n == Len(supported_sets(dim))
    IN  IF i > n THEN entries
        ELSE IF SetPresent(dim, gen, entries, supported_sets(dim)[n + 1 - i])
             THEN {Entry(gen, JoinEntries(dim, gen, entries,
                                          supported_sets(dim)[n + 1 - i]))}
             ELSE validate_from_last_first(dim, gen, entries, i + 1)

RECURSIVE validate_from(_, _, _, _)
validate_from(dim, gen, entries, i) ==
    IF i > Len(supported_sets(dim)) THEN entries
    ELSE IF SetPresent(dim, gen, entries, supported_sets(dim)[i])
         THEN {Entry(gen, JoinEntries(dim, gen, entries, supported_sets(dim)[i]))}
         ELSE validate_from(dim, gen, entries, i + 1)

\* validate returning the members of the bucket beside what it built
validate_and_members(dim, gen, entries) ==
    validate_from(dim, gen, entries, 1) \cup entries

validate(dim, gen, entries) == validate_from(dim, gen, entries, 1)

\* BucketKey with the slots of the inner dimensions wildcarded as well
BucketKey_inner_wildcards(dim, sel) ==
    CASE dim = "hair" -> [hair |-> <<>>, people |-> <<>>, tone |-> <<>>]
      [] dim = "people" -> [hair |-> sel.hair, people |-> <<>>, tone |-> <<>>]
      [] dim = "tone" -> [sel EXCEPT !.tone = <<>>]

\* line 162: the key of the bucket an entry with selector sel is grouped into
BucketKey(dim, sel) == set_selector(dim, sel, <<>>)

Qualifier_qualify(dim, subs) ==
    LET gens == {BucketKey(dim, k.sel) : k \in subs}
    IN  UNION {validate(dim, gen, {k \in subs : BucketKey(dim, k.sel) = gen}) :
                    gen \in gens}

-----------------------------------------------------------------------------
(* PersonKindGroup (groups.rs) and PersonEmoji::qualify (people.rs) *)

GroupAll == [level |-> "All"]
GroupHair(h) == [level |-> "Hair", hair |-> h]
GroupPeople(h, p) == [level |-> "People", hair |-> h, people |-> p]
GroupTone(kind) == [level |-> "Tone", kind |-> kind]

\* PersonKindGroup_qualify with the dimensions of All and People swapped
PersonKindGroup_qualify_tone_first(grp, subs) ==
    CASE grp.level = "All" -> Qualifier_qualify("tone", subs)
      [] grp.level = "Hair" -> Qualifier_qualify("people", subs)
      [] grp.level = "People" -> Qualifier_qualify("hair", subs)

PersonKindGroup_qualify(grp, subs) ==
    CASE grp.level = "All" -> Qualifier_qualify("hair", subs)
      [] grp.level = "Hair" -> Qualifier_qualify("people", subs)
      [] grp.level = "People" -> Qualifier_qualify("tone", subs)

next_iter(grp) ==
    CASE grp.level = "All" -> {GroupHair(h) : h \in {0} \cup HairALL}
      [] grp.level = "Hair" -> {GroupPeople(grp.hair, p) : p \in PairSlots}
      [] grp.level = "People" ->
            {GroupTone(PersonKind(grp.hair, grp.people, t)) : t \in PairSlots}

\* The kinds of `keys` that lie in group g
Within(keys, g) ==
    CASE g.level = "Hair" -> {k \in keys : k.hair = g.hair}
      [] g.level = "People" -> {k \in keys : k.people = g.people}
      [] g.level = "Tone" -> {k \in keys : k = g.kind}

\* `keys` are the kinds of self.variants that lie in grp.  A group holding
\* none of them returns the empty Vec at every level (its leaves return
\* vec![] and qualify of no subs groups nothing), so it is not descended.
RECURSIVE PersonEmoji_qualify(_, _)
PersonEmoji_qualify(keys, grp) ==
    IF keys = {} THEN {}
    ELSE IF grp.level = "Tone"
    THEN IF grp.kind \in keys
         THEN {Entry(SelectorFrom(grp.kind), Leaf(grp.kind))}
         ELSE {}
    ELSE PersonKindGroup_qualify(grp,
            UNION {PersonEmoji_qualify(Within(keys, g), g) : g \in next_iter(grp)})

-----------------------------------------------------------------------------
(* Identifiers.  A string is kept as its sequence of words; a generated    *)
(* constant is a sequence of upper-case alphanumeric words (joined by "_"). *)

\* strutil's constant generator: "&" becomes "and", every run of
\* non-alphanumeric characters separates words, words are upper-cased
ConstantWords(word) ==
    CASE word = "with" -> <<"WITH">>
      [] word = "and" -> <<"AND">>
      [] word = "&" -> <<"AND">>
      [] word = "skin" -> <<"SKIN">>
      [] word = "tone" -> <<"TONE">>
      [] word = "light" -> <<"LIGHT">>
      [] word = "medium-light" -> <<"MEDIUM", "LIGHT">>
      [] word = "medium" -> <<"MEDIUM">>
      [] word = "medium-dark" -> <<"MEDIUM", "DARK">>
      [] word = "dark" -> <<"DARK">>
      [] word = "hair" -> <<"HAIR">>
      [] word = "no" -> <<"NO">>
      [] word = "beard" -> <<"BEARD">>
      [] word = "blond" -> <<"BLOND">>
      [] word = "red" -> <<"RED">>
      [] word = "curly" -> <<"CURLY">>
      [] word = "white" -> <<"WHITE">>
      [] word = "man" -> <<"MAN">>
      [] word = "woman" -> <<"WOMAN">>
      [] word = "men" -> <<"MEN">>
      [] word = "women" -> <<"WOMEN">>
      [] word = "boy" -> <<"BOY">>
      [] word = "girl" -> <<"GIRL">>
      [] word = "boys" -> <<"BOYS">>
      [] word = "girls" -> <<"GIRLS">>
      [] OTHER -> <<word>>

RECURSIVE generate_constant(_)
generate_constant(words) ==
    IF words = <<>> THEN <<>>
    ELSE ConstantWords(Head(words)) \o generate_constant(Tail(words))

RECURSIVE JoinWords(_)
JoinWords(words) ==
    IF Len(words) = 1 THEN words[1]
    ELSE words[1] \o "_" \o JoinWords(Tail(words))

\* str::replace("PERSON", name) on the words of id
RECURSIVE ReplacePerson(_, _)
ReplacePerson(id, name) ==
    IF id = <<>> THEN <<>>
    ELSE (IF Head(id) = "PERSON" THEN name ELSE <<Head(id)>>)
            \o ReplacePerson(Tail(id), name)

adapt_identifier(sel, id) ==
    LET hasHair == sel.hair # <<>> /\ sel.hair[1] # 0
        hasPeople == sel.people # <<>> /\ sel.people[1] # NoPair
        hasTone == sel.tone # <<>> /\ sel.tone[1] # NoPair
        id1 == IF hasHair THEN id \o <<"with">> \o Hair_name(sel.hair[1]) ELSE id
        name == IF hasPeople
                THEN OneOrTwo_name_adults(sel.people[1][1])
                        \o (IF sel.people[1][2] # 0
                            THEN <<"with">> \o OneOrTwo_name_children(sel.people[1][2])
                            ELSE <<>>)
                ELSE <<>>
        id2 == IF hasPeople THEN ReplacePerson(id1, name) ELSE id1
        \* connector(): " with " on its first use, " and " afterwards
        connector == IF hasHair THEN <<"and">> ELSE <<"with">>
        id3 == IF hasTone
               THEN id2 \o connector \o Tone_name(sel.tone[1][1])
                        \o (IF sel.tone[1][2] # 0
                            THEN <<"&">> \o Tone_name(sel.tone[1][2])
                            ELSE <<>>)
               ELSE id2
    IN  id3

-----------------------------------------------------------------------------
(* Enumeration projection (qualifier.rs) and PersonEmoji (people.rs) *)

Triple(const_acc, pub_acc, kind) ==
    [const_acc |-> const_acc, pub_acc |-> pub_acc, kind |-> kind]

RECURSIVE FlattenSeq(_)
FlattenSeq(ss) ==
    IF ss = <<>> THEN <<>> ELSE Head(ss) \o FlattenSeq(Tail(ss))

RECURSIVE to_accessor_n_kind_internal(_, _, _)
to_accessor_n_kind_internal(tree, const_accessor, pub_accessor) ==
    IF IsLeaf(tree) THEN <<Triple(const_accessor, pub_accessor, tree.leaf)>>
    ELSE (IF tree.def # <<>>
          THEN to_accessor_n_kind_internal(tree.def[1],
                    const_accessor \o ".default", pub_accessor)
          ELSE <<>>)
         \o FlattenSeq([i \in 1..Len(tree.subs) |->
                to_accessor_n_kind_internal(tree.subs[i].sub,
                    const_accessor \o "." \o tree.subs[i].const_acc,
                    pub_accessor \o "." \o tree.subs[i].pub_acc)])

to_accessor_n_kind(tree, id) ==
    to_accessor_n_kind_internal(tree, JoinWords(id), JoinWords(id))

\* the types of the subs i.. of a node, in order
RECURSIVE to_type_n_value(_)
RECURSIVE sub_types_from(_, _)
sub_types_from(subs, i) ==
    IF i > Len(subs) THEN <<>>
    ELSE <<to_type_n_value(subs[i].sub)>> \o sub_types_from(subs, i + 1)

\* the type of to_type_n_value (the first of its three Strings), or the
\* panic of the assert! on the sibling types
to_type_n_value(tree) ==
    IF IsLeaf(tree) THEN [panicked |-> FALSE, ty |-> "Emoji"]
    ELSE LET ty_name == "With" \o (IF tree.def = <<>> THEN "NoDef" ELSE "")
             sub_types == (IF tree.def # <<>> THEN <<to_type_n_value(tree.def[1])>>
                           ELSE <<>>)
                            \o sub_types_from(tree.subs, 1)
         IN  IF \/ \E i \in 1..Len(sub_types) : sub_types[i].panicked
                \/ sub_types = <<>>
                \/ \E i \in 1..Len(sub_types) : sub_types[i].ty # sub_types[1].ty
             THEN [panicked |-> TRUE, ty |-> ""]
             ELSE [panicked |-> FALSE,
                   ty |-> ty_name \o "<" \o tree.type_name \o "," \o sub_types[1].ty \o ">"]

\* a PersonEmoji; grouping is <<>> (None) or <<tree>>
PersonEmoji(id, grouping, vs) ==
    [identifier |-> id, grouping |-> grouping, variants |-> vs]

\* a tree some generator panicked in
RECURSIVE Panicked(_)
Panicked(tree) ==
    IF IsLeaf(tree) THEN FALSE
    ELSE \/ \E i \in 1..Len(tree.subs) :
                \/ tree.subs[i].const_acc = Panic
                \/ tree.subs[i].pub_acc = Panic
                \/ Panicked(tree.subs[i].sub)
         \/ (tree.def # <<>> /\ Panicked(tree.def[1]))

Restrict(f, S) == [x \in S |-> f[x]]

\* the Vec a HashMap-backed collection of entries is iterated into
IterationOrder(entries) ==
    SortPairs({<<HashOrd(e.sel), e>> : e \in entries})

\* scrub with `grouping: None` for `grouping: Some(group)`
scrub_without_tree(self) ==
    LET groups == IterationOrder(PersonEmoji_qualify(DOMAIN self.variants, GroupAll))
        panicked == \E i \in 1..Len(groups) : Panicked(groups[i].tree)
        rec(class, group) ==
            PersonEmoji(generate_constant(adapt_identifier(class, self.identifier)),
                        <<>>,
                        Restrict(self.variants,
                                 {k \in DOMAIN self.variants : selects(class, k)}))
    IN  IF panicked THEN [panicked |-> TRUE, classes |-> <<>>, recs |-> <<>>]
        ELSE [panicked |-> FALSE,
              classes |-> [i \in 1..Len(groups) |-> groups[i].sel],
              recs |-> [i \in 1..Len(groups) |-> rec(groups[i].sel, groups[i].tree)]]

\* scrub of self: [panicked, classes, recs]; classes[i] is the selector
\* recs[i] was built from
scrub(self) ==
    LET groups == IterationOrder(PersonEmoji_qualify(DOMAIN self.variants, GroupAll))
        panicked == \E i \in 1..Len(groups) : Panicked(groups[i].tree)
        rec(class, group) ==
            PersonEmoji(generate_constant(adapt_identifier(class, self.identifier)),
                        <<group>>,
                        Restrict(self.variants,
                                 {k \in DOMAIN self.variants : selects(class, k)}))
    IN  IF panicked THEN [panicked |-> TRUE, classes |-> <<>>, recs |-> <<>>]
        ELSE [panicked |-> FALSE,
              classes |-> [i \in 1..Len(groups) |-> groups[i].sel],
              recs |-> [i \in 1..Len(groups) |-> rec(groups[i].sel, groups[i].tree)]]

\* self.variants[&kind]: indexing a HashMap with a missing key panics
Missing == "<panic: key not found>"
Index(vs, kind) == IF kind \in DOMAIN vs THEN vs[kind] ELSE Missing

full_emoji_list(self) ==
    LET list == to_accessor_n_kind(self.grouping[1], self.identifier)
    IN  [i \in 1..Len(list) |->
            [const_acc |-> list[i].const_acc, pub_acc |-> list[i].pub_acc,
             kind |-> list[i].kind,
             grapheme |-> Index(self.variants, list[i].kind)]]

\* the closure with `>` for `<`: the least general triples win
most_general_step_least(vec, item) ==
    IF vec = <<>> \/ default_level(vec[1].kind) = default_level(item.kind)
    THEN Append(vec, item)
    ELSE IF default_level(vec[1].kind) > default_level(item.kind)
         THEN <<item>>
         ELSE vec

\* the closure of the fold: vec holds the most general triples seen so far
most_general_step(vec, item) ==
    IF vec = <<>> \/ default_level(vec[1].kind) = default_level(item.kind)
    THEN Append(vec, item)
    ELSE IF default_level(vec[1].kind) < default_level(item.kind)
         THEN <<item>>
         ELSE vec

\* the fold of default_variants over list[i..], from the accumulator vec
\* (four triples a step while four are left); vec holds some of the i - 1
\* triples folded so far, and its value is computed before the next step
RECURSIVE most_general_fold(_, _, _)
most_general_fold(list, i, vec) ==
    IF i > Len(list) \/ Len(vec) >= i THEN vec
    ELSE IF i + 3 <= Len(list)
    THEN most_general_fold(list, i + 4,
            most_general_step(most_general_step(most_general_step(
                most_general_step(vec, list[i]), list[i + 1]), list[i + 2]), list[i + 3]))
    ELSE most_general_fold(list, i + 1, most_general_step(vec, list[i]))

\* sort() and dedup() leave each distinct triple once: the result as a set
default_variants(self) ==
    LET most_general ==
            most_general_fold(to_accessor_n_kind(self.grouping[1], self.identifier),
                              1, <<>>)
    IN  {[const_acc |-> most_general[i].const_acc,
          pub_acc |-> most_general[i].pub_acc,
          kind |-> most_general[i].kind,
          grapheme |-> Index(self.variants, most_general[i].kind)] :
            i \in 1..Len(most_general)}

-----------------------------------------------------------------------------
(* The feed.  A family is read as one regular block of lines, naming every *)
(* combination of a set of hair, people and tone values, followed by at    *)
(* most MaxExtra single lines.                                             *)

MaxKeys == 80
MaxExtra == 1

\* the grapheme of the line that names a kind after n earlier lines named
\* it (distinct lines carry distinct code point sequences)
Grapheme(kind, n) == <<SelectorOrd(SelectorFrom(kind)), n>>

SeqRange(s) == {s[i] : i \in 1..Len(s)}

HairMenu == { {0}, {2, 3}, HairALL, {0} \cup HairALL }

PeopleMenu ==
    { {NoPair},
      SeqRange(people_only_one),
      SeqRange(people_only_one) \cup {NoPair},
      SeqRange(people_only_two),
      SeqRange(people_only_primary),
      SeqRange(people_with_secondary),
      {<<Two(1), 0>>, <<Two(2), 0>>} }

ToneMenu ==
    { {NoPair},
      {<<1, 0>>},
      SeqRange(tone_only_primary),
      SeqRange(tone_only_primary) \cup {NoPair},
      SeqRange(tone_with_secondary),
      SeqRange(tone_reduced) }

Block(H, P, T) == {PersonKind(h, p, t) : h \in H, p \in P, t \in T}

Blocks ==
    {Block(c[1], c[2], c[3]) :
        c \in {c \in HairMenu \X PeopleMenu \X ToneMenu :
                Cardinality(c[1]) * Cardinality(c[2]) * Cardinality(c[3]) <= MaxKeys}}

ExtraKinds ==
    { PersonKind(0, NoPair, NoPair),
      PersonKind(0, <<One(1), 0>>, NoPair),
      PersonKind(0, NoPair, <<1, 2>>),
      PersonKind(2, <<One(1), 0>>, NoPair) }

\* generate_constant of a family's name: with or without the PERSON word
Identifiers == { <<"PERSON", "TEACHER">>, <<"KISS">> }

Self == PersonEmoji(identifier, <<>>, variants)

Init ==
    /\ debug_assertions \in BOOLEAN
    /\ hash_seed \in 0..1
    /\ identifier \in Identifiers
    /\ \E b \in Blocks : variants = [k \in b |-> Grapheme(k, 0)]
    /\ extra = 0
    /\ pc = "collect"
    /\ out = <<>>
    /\ again = <<>>
    /\ lists = <<>>
    /\ defaults = <<>>
    /\ call = <<>>
    /\ result = <<>>
    /\ subgroup = <<>>
    /\ before = <<>>
    /\ rerun = <<>>
    /\ parser = <<>>
    /\ fragments = <<>>

\* Subgroup::append_person of one more line of the family
AppendPerson(kind) ==
    /\ pc = "collect"
    /\ extra < MaxExtra
    /\ extra' = extra + 1
    /\ variants' = [k \in DOMAIN variants \cup {kind} |->
                        IF k # kind THEN variants[k]
                        ELSE IF kind \in DOMAIN variants
                             THEN Grapheme(kind, variants[kind][2] + 1)
                             ELSE Grapheme(kind, 0)]
    /\ pc' = IF kind \in DOMAIN variants /\ debug_assertions
             THEN "aborted" ELSE "collect"
    /\ UNCHANGED <<parser, fragments, subgroup, before, rerun, debug_assertions, hash_seed, identifier, out, again, lists, defaults,
                   call, result>>

\* PersonEmoji::scrub of the family
Scrub ==
    /\ pc = "collect"
    /\ out' = scrub(Self)
    /\ pc' = IF out'.panicked THEN "aborted" ELSE "scrubbed"
    /\ UNCHANGED <<parser, fragments, subgroup, before, rerun, debug_assertions, hash_seed, identifier, variants, extra,
                   again, lists, defaults, call, result>>

\* scrub of the record a scrub returned alone
ScrubAgain ==
    /\ pc = "scrubbed"
    /\ Len(out.recs) = 1
    /\ again' = scrub(out.recs[1])
    /\ pc' = IF again'.panicked THEN "aborted" ELSE "rescrubbed"
    /\ UNCHANGED <<parser, fragments, subgroup, before, rerun, debug_assertions, hash_seed, identifier, variants, extra,
                   out, lists, defaults, call, result>>

\* generate_constants (main.rs): full_emoji_list and default_emoji_list of
\* every record
Render ==
    /\ pc = "scrubbed"
    /\ lists' = [i \in 1..Len(out.recs) |-> full_emoji_list(out.recs[i])]
    /\ defaults' = [i \in 1..Len(out.recs) |-> default_variants(out.recs[i])]
    /\ pc' = "rendered"
    /\ UNCHANGED <<parser, fragments, subgroup, before, rerun, debug_assertions, hash_seed, identifier, variants, extra,
                   out, again, call, result>>

Next ==
    \/ \E kind \in ExtraKinds : AppendPerson(kind)
    \/ Scrub
    \/ ScrubAgain
    \/ Render

Spec == Init /\ [][Next]_vars

-----------------------------------------------------------------------------
(* Subgroup (emoji.rs): the standalone emojis, the family records and the  *)
(* constants of one subgroup, and Subgroup::sort.  The String keys of the  *)
(* maps are kept as their words; the words that occur hold no "PERSON"     *)
(* inside a longer word.                                                    *)

\* the bytes of an upper-case word
WordChars(word) ==
    CASE word = "AND" -> <<65, 78, 68>>
      [] word = "BEARD" -> <<66, 69, 65, 82, 68>>
      [] word = "BLOND" -> <<66, 76, 79, 78, 68>>
      [] word = "BOY" -> <<66, 79, 89>>
      [] word = "BOYS" -> <<66, 79, 89, 83>>
      [] word = "CURLY" -> <<67, 85, 82, 76, 89>>
      [] word = "DARK" -> <<68, 65, 82, 75>>
      [] word = "GIRL" -> <<71, 73, 82, 76>>
      [] word = "GIRLS" -> <<71, 73, 82, 76, 83>>
      [] word = "HAIR" -> <<72, 65, 73, 82>>
      [] word = "KISS" -> <<75, 73, 83, 83>>
      [] word = "LIGHT" -> <<76, 73, 71, 72, 84>>
      [] word = "MAN" -> <<77, 65, 78>>
      [] word = "MEDIUM" -> <<77, 69, 68, 73, 85, 77>>
      [] word = "MEN" -> <<77, 69, 78>>
      [] word = "NO" -> <<78, 79>>
      [] word = "PERSON" -> <<80, 69, 82, 83, 79, 78>>
      [] word = "RED" -> <<82, 69, 68>>
      [] word = "SKIN" -> <<83, 75, 73, 78>>
      [] word = "TEACHER" -> <<84, 69, 65, 67, 72, 69, 82>>
      [] word = "TONE" -> <<84, 79, 78, 69>>
      [] word = "WHITE" -> <<87, 72, 73, 84, 69>>
      [] word = "WITH" -> <<87, 73, 84, 72>>
      [] word = "WOMAN" -> <<87, 79, 77, 65, 78>>
      [] word = "WOMEN" -> <<87, 79, 77, 69, 78>>

\* the bytes of the String an identifier is: its words joined by "_"
RECURSIVE IdChars(_)
IdChars(id) ==
    IF id = <<>> THEN <<>>
    ELSE IF Len(id) = 1 THEN WordChars(id[1])
    ELSE WordChars(id[1]) \o <<95>> \o IdChars(Tail(id))

\* Ord for the bytes of two Strings: x < y
BytesLess(x, y) ==
    \E i \in 1..(Len(x) + 1) :
        /\ i - 1 <= Len(y)
        /\ \A j \in 1..(i - 1) : x[j] = y[j]
        /\ IF i > Len(x) THEN Len(y) >= i
           ELSE i <= Len(y) /\ x[i] < y[i]

StrLess(a, b) == BytesLess(IdChars(a), IdChars(b))

\* the Strings of S in ascending order
RECURSIVE AscendingBytes(_)
AscendingBytes(P) ==
    IF P = {} THEN <<>>
    ELSE LET m == CHOOSE p \in P : \A q \in P \ {p} : BytesLess(p[1], q[1])
         IN  <<m[2]>> \o AscendingBytes(P \ {m})

Ascending(S) == AscendingBytes({<<IdChars(a), a>> : a \in S})

Reverse(s) == [i \in 1..Len(s) |-> s[Len(s) + 1 - i]]

\* the order a HashMap with String keys S is iterated in by this process
KeysOrder(S) == IF hash_seed = 0 THEN Ascending(S) ELSE Reverse(Ascending(S))

\* Vec::sort of a Vec of Strings
RECURSIVE Vec_insert(_, _)
Vec_insert(s, x) ==
    IF s = <<>> THEN <<x>>
    ELSE IF StrLess(s[1], x) THEN <<s[1]>> \o Vec_insert(Tail(s), x)
    ELSE <<x>> \o s

RECURSIVE Vec_sort(_)
Vec_sort(v) == IF v = <<>> THEN <<>> ELSE Vec_insert(Vec_sort(Tail(v)), Head(v))

\* Vec::dedup: of consecutive equal elements the first stays
RECURSIVE Vec_dedup(_)
Vec_dedup(v) ==
    IF Len(v) < 2 THEN v
    ELSE IF v[1] = v[2] THEN Vec_dedup(Tail(v))
    ELSE <<v[1]>> \o Vec_dedup(Tail(v))

\* k.replace("_PERSON", "").replace("PERSON_", "")
shorten(k) ==
    LET rest == SeqFilter(Tail(k), {w \in SeqRange(k) : w # "PERSON"})
    IN  IF Head(k) = "PERSON" /\ rest # <<>> THEN rest ELSE <<Head(k)>> \o rest

\* Default::default() of PersonKind
PersonKind_default == PersonKind(0, NoPair, NoPair)

Subgroup(emojis, constants, person_emojis) ==
    [emojis |-> emojis, constants |-> constants, person_emojis |-> person_emojis]

\* HashMap::insert(key, value)
Insert(map, key, value) ==
    [x \in DOMAIN map \cup {key} |-> IF x = key THEN value ELSE map[x]]

Remove(map, key) == [x \in DOMAIN map \ {key} |-> map[x]]

\* A run of sort: the Subgroup, whether an assertion or a generator has
\* panicked, and whether an insert has returned Some (replaced an entry)
Run(self, panicked, replaced) ==
    [emojis |-> self.emojis, constants |-> self.constants,
     person_emojis |-> self.person_emojis,
     panicked |-> panicked, replaced |-> replaced]

\* fold_standalone_keeps with emojis.get for emojis.remove: the folded emoji stays
\* in the standalone map
RECURSIVE fold_standalone_keeps(_, _)
fold_standalone_keeps(self, keys) ==
    IF keys = <<>> \/ self.panicked THEN self
    ELSE LET k == Head(keys)
             p == self.person_emojis[k]
             found == IF k \in DOMAIN self.emojis THEN <<k>>
                      ELSE IF shorten(k) \in DOMAIN self.emojis THEN <<shorten(k)>>
                      ELSE <<>>
         IN  IF found = <<>> THEN fold_standalone_keeps(self, Tail(keys))
             ELSE LET res_is_some == PersonKind_default \in DOMAIN p.variants
                      folded == [identifier |-> IF k \in DOMAIN self.emojis
                                                THEN p.identifier ELSE shorten(k),
                                 grouping |-> p.grouping,
                                 variants |-> Insert(p.variants, PersonKind_default,
                                                     self.emojis[found[1]])]
                  IN  fold_standalone_keeps(
                        [emojis |-> self.emojis,
                         constants |-> self.constants,
                         person_emojis |-> Insert(self.person_emojis, k, folded),
                         panicked |-> debug_assertions /\ res_is_some,
                         replaced |-> self.replaced \/ res_is_some],
                        Tail(keys))

\* lines 179-192: the loop over person_emojis.iter_mut(), on the keys left
RECURSIVE fold_standalone(_, _)
fold_standalone(self, keys) ==
    IF keys = <<>> \/ self.panicked THEN self
    ELSE LET k == Head(keys)
             p == self.person_emojis[k]
             found == IF k \in DOMAIN self.emojis THEN <<k>>
                      ELSE IF shorten(k) \in DOMAIN self.emojis THEN <<shorten(k)>>
                      ELSE <<>>
         IN  IF found = <<>> THEN fold_standalone(self, Tail(keys))
             ELSE LET res_is_some == PersonKind_default \in DOMAIN p.variants
                      folded == [identifier |-> IF k \in DOMAIN self.emojis
                                                THEN p.identifier ELSE shorten(k),
                                 grouping |-> p.grouping,
                                 variants |-> Insert(p.variants, PersonKind_default,
                                                     self.emojis[found[1]])]
                  IN  fold_standalone(
                        [emojis |-> Remove(self.emojis, found[1]),
                         constants |-> self.constants,
                         person_emojis |-> Insert(self.person_emojis, k, folded),
                         panicked |-> debug_assertions /\ res_is_some,
                         replaced |-> self.replaced \/ res_is_some],
                        Tail(keys))

\* lines 195-201: the keys to merge into their shortened key
to_merge(self) ==
    SeqFilter(KeysOrder(DOMAIN self.person_emojis),
              {k \in DOMAIN self.person_emojis :
                    /\ shorten(k) # k
                    /\ shorten(k) # <<>>
                    /\ shorten(k) \in DOMAIN self.person_emojis})

\* lines 202-217: the loop over to_merge, on the keys left
RECURSIVE merge_persons(_, _)
merge_persons(self, keys) ==
    IF keys = <<>> \/ self.panicked THEN self
    ELSE LET k == Head(keys)
             short == shorten(k)
             old == self.person_emojis[k].variants
             target == self.person_emojis[short]
             res_is_some == DOMAIN old \cap DOMAIN target.variants # {}
             new == [x \in DOMAIN old \cup DOMAIN target.variants |->
                        IF x \in DOMAIN old THEN old[x] ELSE target.variants[x]]
         IN  merge_persons(
                [emojis |-> self.emojis,
                 constants |-> self.constants,
                 person_emojis |->
                    Insert(Remove(self.person_emojis, k), short,
                           [identifier |-> target.identifier,
                            grouping |-> target.grouping,
                            variants |-> new]),
                 panicked |-> debug_assertions /\ res_is_some,
                 replaced |-> self.replaced \/ res_is_some],
                Tail(keys))

\* lines 224-226: the records of to_add inserted under their identifiers,
\* in order
RECURSIVE insert_all(_, _)
insert_all(map, to_add) ==
    IF to_add = <<>> THEN map
    ELSE insert_all(Insert(map, Head(to_add).identifier, Head(to_add)), Tail(to_add))

\* lines 219-226, given what scrub returned for each drained record
extend_and_insert(self, scrubs) ==
    IF \E i \in 1..Len(scrubs) : scrubs[i].panicked
    THEN [self EXCEPT !.panicked = TRUE]
    ELSE [self EXCEPT !.person_emojis =
            insert_all(<<>>, FlattenSeq([i \in 1..Len(scrubs) |-> scrubs[i].recs]))]

\* the records of self.person_emojis in the order drain() yields them
drain(self, keys) == [i \in 1..Len(keys) |-> self.person_emojis[keys[i]]]

scrub_each(records) == [i \in 1..Len(records) |-> scrub(records[i])]

scrub_all(self) ==
    IF self.panicked THEN self
    ELSE extend_and_insert(self,
            scrub_each(drain(self, KeysOrder(DOMAIN self.person_emojis))))

\* clean_constants without constants.sort(): the keys stay in the order
\* the maps yielded them
clean_constants_unsorted(self) ==
    IF self.panicked THEN self
    ELSE [self EXCEPT !.constants =
        Vec_dedup(KeysOrder(DOMAIN self.emojis)
                    \o KeysOrder(DOMAIN self.person_emojis))]

\* lines 228-233
clean_constants(self) ==
    IF self.panicked THEN self
    ELSE [self EXCEPT !.constants =
        Vec_dedup(Vec_sort(KeysOrder(DOMAIN self.emojis)
                            \o KeysOrder(DOMAIN self.person_emojis)))]

\* sort up to the end of its first loop, of its merge loop, and whole
sort_folded(self) ==
    fold_standalone(Run(self, FALSE, FALSE), KeysOrder(DOMAIN self.person_emojis))

merge_all(folded) == merge_persons(folded, to_merge(folded))

sort_merged(self) == merge_all(sort_folded(self))

Subgroup_sort(self) == clean_constants(scrub_all(sort_merged(self)))

\* Subgroup::emoji_iter: what each constant resolves to
NotFound == "<panic: unwrap on None>"
emoji_iter(self) ==
    [i \in 1..Len(self.constants) |->
        IF self.constants[i] \in DOMAIN self.emojis THEN "Emoji"
        ELSE IF self.constants[i] \in DOMAIN self.person_emojis THEN "PersonEmoji"
        ELSE NotFound]

-----------------------------------------------------------------------------
(* The feed of a subgroup.  Each family is read as a regular block of      *)
(* lines or not at all, followed by at most MaxLines single lines, each a  *)
(* standalone emoji or one more line of a family.                          *)

MaxLines == 2

FamilyKeys == << <<"TEACHER">>, <<"PERSON", "TEACHER">>, <<"TEACHER", "PERSON">> >>

\* generate_constant(extract_attr(name)) of the lines that name no person
StandaloneIds == { <<"TEACHER">>, <<"PERSON", "TEACHER">>, <<"KISS">> }

\* the blocks family n may be read from: tones for the family without the
\* PERSON word, man and woman for the others
FamilyBlocks(n) ==
    IF n = 1 THEN { {}, Block({0}, {NoPair}, SeqRange(tone_only_primary)) }
    ELSE { {}, Block({0}, SeqRange(people_only_one), {NoPair}) }

\* the kinds of the single lines of a family
LineKinds == { PersonKind_default, PersonKind(0, <<One(1), 0>>, NoPair) }

\* the grapheme of the line of family n that names a kind in its block,
\* and of the i-th single line
BlockGrapheme(n, kind) == <<SelectorOrd(SelectorFrom(kind)), n>>
LineGrapheme(i) == <<0 - i, 0>>

\* PersonEmoji::new: no tree, no variants
PersonEmoji_new(name) == PersonEmoji(generate_constant(name), <<>>, <<>>)

InitSort ==
    /\ debug_assertions \in BOOLEAN
    /\ hash_seed \in 0..1
    /\ identifier = <<"KISS">>
    /\ variants = <<>>
    /\ extra = 0
    /\ pc = "collect"
    /\ out = <<>>
    /\ again = <<>>
    /\ lists = <<>>
    /\ defaults = <<>>
    /\ call = <<>>
    /\ result = <<>>
    /\ \E b1 \in FamilyBlocks(1), b2 \in FamilyBlocks(2), b3 \in FamilyBlocks(3) :
            LET b == <<b1, b2, b3>>
                present == {n \in 1..3 : b[n] # {}}
            IN  subgroup =
                    Subgroup(<<>>, <<>>,
                             [k \in {FamilyKeys[n] : n \in present} |->
                                LET m == CHOOSE m \in present : FamilyKeys[m] = k
                                IN  PersonEmoji(k, <<>>,
                                        [kind \in b[m] |-> BlockGrapheme(m, kind)])])
    /\ before = <<>>
    /\ rerun = <<>>
    /\ parser = <<>>
    /\ fragments = <<>>

\* Emojis::append_line of a line that names no person (lines 340-357)
AppendLine(id) ==
    /\ pc = "collect"
    /\ extra < MaxLines
    /\ extra' = extra + 1
    /\ subgroup' =
            [subgroup EXCEPT
                !.emojis = Insert(@, id, LineGrapheme(extra + 1)),
                !.constants = IF id \in DOMAIN subgroup.emojis THEN @
                              ELSE Append(@, id)]
    /\ UNCHANGED <<parser, fragments, debug_assertions, hash_seed, identifier, variants, pc, out, again,
                   lists, defaults, call, result, before, rerun>>

\* Subgroup::append_person of a line of family `key`
AppendPersonLine(key, kind) ==
    /\ pc = "collect"
    /\ extra < MaxLines
    /\ extra' = extra + 1
    /\ LET p == IF key \in DOMAIN subgroup.person_emojis
                THEN subgroup.person_emojis[key] ELSE PersonEmoji_new(key)
       IN  /\ subgroup' =
                [subgroup EXCEPT
                    !.person_emojis =
                        Insert(@, key,
                               [p EXCEPT !.variants =
                                    Insert(@, kind, LineGrapheme(extra + 1))])]
           /\ pc' = IF kind \in DOMAIN p.variants /\ debug_assertions
                    THEN "aborted" ELSE "collect"
    /\ UNCHANGED <<parser, fragments, debug_assertions, hash_seed, identifier, variants, out, again,
                   lists, defaults, call, result, before, rerun>>

\* Subgroup::sort
Sort ==
    /\ pc = "collect"
    /\ before' = subgroup
    /\ \E done \in {Subgroup_sort(subgroup)} :
           /\ subgroup' = IF done.panicked THEN subgroup
                          ELSE Subgroup(done.emojis, done.constants, done.person_emojis)
           /\ pc' = IF done.panicked THEN "panicked" ELSE "sorted"
    /\ UNCHANGED <<parser, fragments, debug_assertions, hash_seed, identifier, variants, extra, out, again,
                   lists, defaults, call, result, rerun>>

\* to_source_code, full_emoji_list and default_variants of the n-th family
\* record: each panics unless the record holds a tree (people.rs:51-66,
\* 131-135, 159-169)
Unscrubbed == "PersonEmoji must be scrubbed before it can be rendered!"

ProjectChoices == 1..3

to_source_code(self) == "pub static " \o JoinWords(self.identifier)

Project(n) ==
    /\ pc \in {"collect", "sorted"}
    /\ n <= Cardinality(DOMAIN subgroup.person_emojis)
    /\ \E self \in {subgroup.person_emojis[Ascending(DOMAIN subgroup.person_emojis)[n]]} :
            IF self.grouping = <<>>
            THEN result' = Unscrubbed /\ pc' = "projection panicked"
            ELSE /\ result' = [source |-> to_source_code(self),
                               list |-> full_emoji_list(self),
                               defaults |-> default_variants(self)]
                 /\ pc' = "projected"
    /\ UNCHANGED <<parser, fragments, debug_assertions, hash_seed, identifier, variants, extra, out, again,
                   lists, defaults, call, subgroup, before, rerun>>

\* another process is handed the same lines: its hash maps iterate in
\* another order
Restart ==
    /\ pc \in {"sorted", "panicked"}
    /\ hash_seed' = 1 - hash_seed
    /\ rerun' = [panicked |-> pc = "panicked"]
    /\ pc' = "restarted"
    /\ UNCHANGED <<parser, fragments, debug_assertions, identifier, variants, extra, out, again,
                   lists, defaults, call, result, subgroup, before>>

\* Subgroup::sort in that process
SortAgain ==
    /\ pc = "restarted"
    /\ rerun' = [panicked |-> rerun.panicked, sorted |-> Subgroup_sort(before)]
    /\ pc' = "compared"
    /\ UNCHANGED <<parser, fragments, debug_assertions, hash_seed, identifier, variants, extra, out, again,
                   lists, defaults, call, result, subgroup, before>>

NextSort ==
    \/ \E id \in StandaloneIds : AppendLine(id)
    \/ \E n \in 1..3, kind \in LineKinds : AppendPersonLine(FamilyKeys[n], kind)
    \/ Sort
    \/ \E n \in ProjectChoices : Project(n)
    \/ Restart
    \/ SortAgain

SpecSort == InitSort /\ [][NextSort]_vars

-----------------------------------------------------------------------------
(* EmojiTextParser (src/text.rs).  A str is kept as the sequence of its    *)
(* chars; every index the parser slices at is the index of a colon or the  *)
(* end of the text.  Indices count from 0 as in the source.                *)

MaxText == 5

\* the chars of the texts: the colon, two chars an alias may hold and one
\* it may not
TextChars == {":", "a", "b", " "}

\* the keys of the alias map, and the grapheme of each
Aliases == { <<"a">>, <<"b", "a">> }

Emoji_grapheme(name) == IF name = <<"a">> THEN "<a>" ELSE "<ba>"

\* &s[from..to]
Slice(s, from, to) == SubSeq(s, from + 1, to)

EmojiTextParser(original, next_pos, emoji_fragment_start) ==
    [original |-> original, next_pos |-> next_pos,
     emoji_fragment_start |-> emoji_fragment_start]

EmojiTextParser_new(original) == EmojiTextParser(original, 0, FALSE)

\* Option<&Emoji>: <<>> is None
parse_pure_alias(inp) == IF inp \in Aliases THEN <<Emoji_grapheme(inp)>> ELSE <<>>

is_ascii(inp) == \A i \in 1..Len(inp) : inp[i] \in TextChars

parse_alias(inp) ==
    IF /\ inp # <<>>
       /\ inp[1] = ":"
       /\ inp[Len(inp)] = ":"
       /\ is_ascii(inp)
       /\ Len(inp) > 2
    THEN parse_pure_alias(Slice(inp, 1, Len(inp) - 1))
    ELSE <<>>

is_valid_emoji_char(c) == c \in {"a", "b"}

\* what a call leaves: the parser and the item it returns (<<>> is None)
Yield(self, item) == [parser |-> self, item |-> item, panicked |-> FALSE]

\* a call that panics returns nothing
Unwind(self) == [parser |-> self, item |-> <<>>, panicked |-> TRUE]

\* text_until_next_colon with the slice starting behind the skipped chars
text_until_next_colon_drops(self, start_idx, skip) ==
    LET colons == {i \in (start_idx + skip)..(Len(self.original) - 1) :
                        self.original[i + 1] = ":"}
    IN  IF colons # {}
        THEN LET true_colon_idx == CHOOSE i \in colons : \A j \in colons : i <= j
             IN  Yield(EmojiTextParser(self.original, true_colon_idx + 1, TRUE),
                       <<Slice(self.original, start_idx + skip, true_colon_idx)>>)
        ELSE Yield(EmojiTextParser(self.original, Len(self.original), FALSE),
                   <<Slice(self.original, start_idx + skip, Len(self.original))>>)

\* text_until_next_colon going on at the colon instead of behind it
text_until_next_colon_at_colon(self, start_idx, skip) ==
    LET colons == {i \in (start_idx + skip)..(Len(self.original) - 1) :
                        self.original[i + 1] = ":"}
    IN  IF colons # {}
        THEN LET true_colon_idx == CHOOSE i \in colons : \A j \in colons : i <= j
             IN  Yield(EmojiTextParser(self.original, true_colon_idx, TRUE),
                       <<Slice(self.original, start_idx, true_colon_idx)>>)
        ELSE Yield(EmojiTextParser(self.original, Len(self.original), FALSE),
                   <<Slice(self.original, start_idx, Len(self.original))>>)

text_until_next_colon(self, start_idx, skip) ==
    LET colons == {i \in (start_idx + skip)..(Len(self.original) - 1) :
                        self.original[i + 1] = ":"}
    IN  IF colons # {}
        THEN LET true_colon_idx == CHOOSE i \in colons : \A j \in colons : i <= j
             IN  Yield(EmojiTextParser(self.original, true_colon_idx + 1, TRUE),
                       <<Slice(self.original, start_idx, true_colon_idx)>>)
        ELSE Yield(EmojiTextParser(self.original, Len(self.original), FALSE),
                   <<Slice(self.original, start_idx, Len(self.original))>>)

\* second_colon with the closing colon of a misspelled name used up
second_colon_consumed(self, start_idx, current_pos) ==
    IF parse_alias(Slice(self.original, start_idx, current_pos + 1)) # <<>>
    THEN Yield(EmojiTextParser(self.original, current_pos + 1, FALSE),
               <<parse_alias(Slice(self.original, start_idx, current_pos + 1))>>)
    ELSE Yield(EmojiTextParser(self.original, current_pos + 1, FALSE),
               <<Slice(self.original, start_idx, current_pos)>>)

\* lines 188-205: the char at current_pos is the second colon
second_colon(self, start_idx, current_pos) ==
    IF parse_alias(Slice(self.original, start_idx, current_pos + 1)) # <<>>
    THEN Yield(EmojiTextParser(self.original, current_pos + 1, FALSE),
               <<parse_alias(Slice(self.original, start_idx, current_pos + 1))>>)
    ELSE Yield(EmojiTextParser(self.original, current_pos + 1, TRUE),
               <<Slice(self.original, start_idx, current_pos)>>)

\* validate_chars leaving emoji_fragment_start set at the end of the text
RECURSIVE validate_chars_stays_open(_, _, _)
validate_chars_stays_open(self, start_idx, current_pos) ==
    IF current_pos >= Len(self.original)
    THEN Yield(EmojiTextParser(self.original, Len(self.original), TRUE),
               <<Slice(self.original, start_idx, Len(self.original))>>)
    ELSE IF self.original[current_pos + 1] = ":"
    THEN second_colon(self, start_idx, current_pos)
    ELSE IF is_valid_emoji_char(self.original[current_pos + 1])
    THEN validate_chars_stays_open(self, start_idx, current_pos + 1)
    ELSE text_until_next_colon(self, start_idx, 1)

\* lines 186-222: the loop over the chars behind the colon at start_idx,
\* at the char with index current_pos
RECURSIVE validate_chars(_, _, _)
validate_chars(self, start_idx, current_pos) ==
    IF current_pos >= Len(self.original)
    THEN Yield(EmojiTextParser(self.original, Len(self.original), FALSE),
               <<Slice(self.original, start_idx, Len(self.original))>>)
    ELSE IF self.original[current_pos + 1] = ":"
    THEN second_colon(self, start_idx, current_pos)
    ELSE IF is_valid_emoji_char(self.original[current_pos + 1])
    THEN validate_chars(self, start_idx, current_pos + 1)
    ELSE text_until_next_colon(self, start_idx, 1)

\* Iterator::next
EmojiTextParser_next(self) ==
    IF self.emoji_fragment_start
    THEN IF debug_assertions /\ ~(self.next_pos > 0)
         THEN Unwind(self)
         ELSE validate_chars(self, self.next_pos - 1, self.next_pos)
    ELSE IF self.next_pos < Len(self.original)
    THEN text_until_next_colon(self, self.next_pos, 0)
    ELSE Yield(self, <<>>)

\* every text of n chars
RECURSIVE Texts(_)
Texts(n) ==
    IF n = 0 THEN {<<>>}
    ELSE {Append(t, c) : t \in Texts(n - 1), c \in TextChars}

InitText ==
    /\ debug_assertions \in BOOLEAN
    /\ hash_seed = 0
    /\ identifier = <<"KISS">>
    /\ variants = <<>>
    /\ extra = 0
    /\ pc = "parsing"
    /\ out = <<>>
    /\ again = <<>>
    /\ lists = <<>>
    /\ defaults = <<>>
    /\ call = <<>>
    /\ result = <<>>
    /\ subgroup = <<>>
    /\ before = <<>>
    /\ rerun = <<>>
    /\ \E n \in 0..MaxText : \E text \in Texts(n) : parser = EmojiTextParser_new(text)
    /\ fragments = <<>>

\* one call of next by collect::<String>(): an item is pushed, None ends
\* the collection
NextFragment ==
    /\ pc = "parsing"
    /\ \E yield \in {EmojiTextParser_next(parser)} :
            /\ parser' = yield.parser
            /\ fragments' = IF yield.item = <<>> THEN fragments
                            ELSE Append(fragments, yield.item[1])
            /\ pc' = IF yield.panicked THEN "aborted"
                     ELSE IF yield.item = <<>> THEN "collected"
                     ELSE "parsing"
    /\ UNCHANGED <<debug_assertions, hash_seed, identifier, variants, extra, out, again,
                   lists, defaults, call, result, subgroup, before, rerun>>

\* one more call of next on a parser that has returned None; `result`
\* holds what the call returns
NextAfterNone ==
    /\ pc \in {"collected", "fused"}
    /\ \E yield \in {EmojiTextParser_next(parser)} :
            /\ parser' = yield.parser
            /\ result' = [item |-> yield.item]
            /\ pc' = IF yield.panicked THEN "aborted" ELSE "fused"
    /\ UNCHANGED <<debug_assertions, hash_seed, identifier, variants, extra, out, again,
                   lists, defaults, call, fragments, subgroup, before, rerun>>

NextText ==
    \/ NextFragment
    \/ NextAfterNone

SpecText == InitText /\ [][NextText]_vars

-----------------------------------------------------------------------------
(* regional_flag (src/lib.rs).  A char is kept as its code point and a str  *)
(* as the sequence of its chars.                                           *)

MaxCode == 3

\* the chars of the codes: 'G', 'b', '1', '-', ' ', '_' and U+00E9
CodeChars == {71, 98, 49, 45, 32, 95, 233}

\* char::is_ascii
char_is_ascii(c) == c <= 127

\* char::is_ascii_alphanumeric
is_ascii_alphanumeric(c) ==
    \/ c \in 48..57
    \/ c \in 65..90
    \/ c \in 97..122

\* str::to_ascii_lowercase
to_ascii_lowercase(str) ==
    [i \in 1..Len(str) |-> IF str[i] \in 65..90 THEN str[i] + 32 ELSE str[i]]

\* keeps the chars of str that are in the set keep
RECURSIVE CharFilter(_, _)
CharFilter(str, keep) ==
    IF str = <<>> THEN <<>>
    ELSE IF Head(str) \in keep THEN <<Head(str)>> \o CharFilter(Tail(str), keep)
    ELSE CharFilter(Tail(str), keep)

\* what a call of regional_flag leaves: the String it returns, or the panic
\* of the assert!
regional_flag(regional_code) ==
    IF ~(\A i \in 1..Len(regional_code) :
            is_ascii_alphanumeric(regional_code[i]) \/ regional_code[i] = 45)
    THEN [panicked |-> TRUE, flag |-> <<>>]
    ELSE LET lower == to_ascii_lowercase(regional_code)
             kept == CharFilter(lower, {c \in 0..127 : is_ascii_alphanumeric(c)})
             code == [i \in 1..Len(kept) |-> kept[i] + 917504]
         IN  [panicked |-> FALSE, flag |-> <<127988>> \o code \o <<917631>>]

\* every code of n chars
RECURSIVE Codes(_)
Codes(n) ==
    IF n = 0 THEN {<<>>}
    ELSE {Append(t, c) : t \in Codes(n - 1), c \in CodeChars}

\* `call` holds the regional_code and `result` what the call leaves
InitFlag ==
    /\ debug_assertions \in BOOLEAN
    /\ hash_seed = 0
    /\ identifier = <<"KISS">>
    /\ variants = <<>>
    /\ extra = 0
    /\ pc = "code"
    /\ out = <<>>
    /\ again = <<>>
    /\ lists = <<>>
    /\ defaults = <<>>
    /\ \E n \in 0..MaxCode : \E regional_code \in Codes(n) : call = regional_code
    /\ result = <<>>
    /\ subgroup = <<>>
    /\ before = <<>>
    /\ rerun = <<>>
    /\ parser = <<>>
    /\ fragments = <<>>

RegionalFlag ==
    /\ pc = "code"
    /\ result' = regional_flag(call)
    /\ pc' = IF result'.panicked THEN "flag panicked" ELSE "flag"
    /\ UNCHANGED <<parser, fragments, subgroup, before, rerun, debug_assertions, hash_seed,
                   identifier, variants, extra, out, again, lists, defaults, call>>

SpecFlag == InitFlag /\ [][RegionalFlag]_vars

-----------------------------------------------------------------------------
(* One call of PersonKind::default_level (groups.rs), on any key whose     *)
(* slots hold None or one of the first MaxAttr values of the attribute.    *)

MaxAttr == 2

LevelPairs == {NoPair} \cup ((1..MaxAttr) \X (0..MaxAttr))

LevelKinds == {PersonKind(h, p, t) : h \in 0..MaxAttr, p \in LevelPairs, t \in LevelPairs}

\* `call` holds the key and `result` the level
InitLevel ==
    /\ debug_assertions \in BOOLEAN
    /\ hash_seed = 0
    /\ identifier = <<"KISS">>
    /\ variants = <<>>
    /\ extra = 0
    /\ pc = "key"
    /\ out = <<>>
    /\ again = <<>>
    /\ lists = <<>>
    /\ defaults = <<>>
    /\ call \in LevelKinds
    /\ result = <<>>
    /\ subgroup = <<>>
    /\ before = <<>>
    /\ rerun = <<>>
    /\ parser = <<>>
    /\ fragments = <<>>

DefaultLevel ==
    /\ pc = "key"
    /\ result' = [level |-> default_level(call)]
    /\ pc' = "level"
    /\ UNCHANGED <<parser, fragments, subgroup, before, rerun, debug_assertions, hash_seed,
                   identifier, variants, extra, out, again, lists, defaults, call>>

SpecLevel == InitLevel /\ [][DefaultLevel]_vars

-----------------------------------------------------------------------------
(* One call of Qualifier::validate, on a bucket as Qualifier::qualify hands *)
(* it over: the members agree with `gen` in every slot but the one of the  *)
(* dimension, and no two members hold the same value in that slot.         *)

MaxMembers == 1

Menu(dim) ==
    CASE dim = "hair" -> HairMenu
      [] dim = "people" -> PeopleMenu
      [] dim = "tone" -> ToneMenu

\* the values single further members of a bucket are drawn from
MemberValues(dim) ==
    CASE dim = "hair" -> <<0, 1, 2, 4, 6>>
      [] dim = "people" ->
            <<NoPair, <<One(1), 0>>, <<Two(1), 0>>, <<One(1), One(1)>>, <<Two(2), Two(2)>>>>
      [] dim = "tone" -> <<NoPair, <<1, 0>>, <<1, 1>>, <<1, 2>>, <<2, 1>>>>

MemberChoices == 1..5

\* the bucket key: the outer slots hold no attribute, the inner slots are
\* concrete below leaves and wildcards below nodes
BucketGen(dim, inner) ==
    CASE dim = "tone" -> [hair |-> <<0>>, people |-> <<NoPair>>, tone |-> <<>>]
      [] dim = "people" ->
            [hair |-> <<0>>, people |-> <<>>,
             tone |-> IF inner = "leaf" THEN <<NoPair>> ELSE <<>>]
      [] dim = "hair" ->
            [hair |-> <<>>,
             people |-> IF inner = "leaf" THEN <<NoPair>> ELSE <<>>,
             tone |-> <<NoPair>>]

\* the subtree the inner dimension returned for value v of dim
InnerTree(dim, v, inner) ==
    IF inner = "leaf"
    THEN Leaf(CASE dim = "tone" -> PersonKind(0, NoPair, v)
                [] dim = "people" -> PersonKind(0, v, NoPair)
                [] dim = "hair" -> PersonKind(v, NoPair, NoPair))
    ELSE IF dim = "people"
    THEN (CHOOSE e \in PersonEmoji_qualify(
                Block({0}, {v}, SeqRange(tone_only_primary)),
                GroupPeople(0, v)) : TRUE).tree
    ELSE (CHOOSE e \in PersonEmoji_qualify(
                Block({v}, SeqRange(people_only_one), {NoPair}),
                GroupHair(v)) : TRUE).tree

Member(dim, v, inner) ==
    Entry(set_selector(dim, BucketGen(dim, inner), <<v>>), InnerTree(dim, v, inner))

InitValidate ==
    /\ debug_assertions \in BOOLEAN
    /\ hash_seed \in 0..1
    /\ identifier = <<"KISS">>
    /\ variants = <<>>
    /\ extra = 0
    /\ pc = "bucket"
    /\ out = <<>>
    /\ again = <<>>
    /\ lists = <<>>
    /\ defaults = <<>>
    /\ \E dim \in {"hair", "people", "tone"}, inner \in {"leaf", "node"} :
            /\ dim = "tone" => inner = "leaf"
            /\ \E V \in Menu(dim) :
                    call = [dim |-> dim, inner |-> inner, gen |-> BucketGen(dim, inner),
                            entries |-> {Member(dim, v, inner) : v \in V}]
    /\ result = <<>>
    /\ subgroup = <<>>
    /\ before = <<>>
    /\ rerun = <<>>
    /\ parser = <<>>
    /\ fragments = <<>>

\* Qualifier::qualify groups one more member into the bucket
AddMember(n) ==
    /\ pc = "bucket"
    /\ extra < MaxMembers
    /\ Member(call.dim, MemberValues(call.dim)[n], call.inner) \notin call.entries
    /\ extra' = extra + 1
    /\ call' = [call EXCEPT !.entries =
                    @ \cup {Member(call.dim, MemberValues(call.dim)[n], call.inner)}]
    /\ UNCHANGED <<parser, fragments, subgroup, before, rerun, debug_assertions, hash_seed, identifier, variants, pc,
                   out, again, lists, defaults, result>>

\* Qualifier::validate(gen, entries); a call that panics returns nothing
Validate ==
    /\ pc = "bucket"
    /\ LET returned == validate(call.dim, call.gen, call.entries)
       IN  IF \E e \in returned : Panicked(e.tree)
           THEN result' = <<>> /\ pc' = "aborted"
           ELSE result' = returned /\ pc' = "validated"
    /\ UNCHANGED <<parser, fragments, subgroup, before, rerun, debug_assertions, hash_seed, identifier, variants, extra,
                   out, again, lists, defaults, call>>

NextValidate ==
    \/ \E n \in MemberChoices : AddMember(n)
    \/ Validate

SpecValidate == InitValidate /\ [][NextValidate]_vars

-----------------------------------------------------------------------------
(* Properties of scrub and of the records it returns *)

RECURSIVE Leaves(_)
Leaves(tree) ==
    IF IsLeaf(tree) THEN {tree.leaf}
    ELSE (IF tree.def # <<>> THEN Leaves(tree.def[1]) ELSE {})
            \cup UNION {Leaves(tree.subs[i].sub) : i \in 1..Len(tree.subs)}

RECURSIVE NodeTags(_)
NodeTags(tree) ==
    IF IsLeaf(tree) THEN {}
    ELSE {tree.type_name}
            \cup (IF tree.def # <<>> THEN NodeTags(tree.def[1]) ELSE {})
            \cup UNION {NodeTags(tree.subs[i].sub) : i \in 1..Len(tree.subs)}

Keys == DOMAIN variants
Scrubbed == out # <<>> /\ ~out.panicked
Tree(i) == out.recs[i].grouping[1]

\* C1: for every record scrub returns and every key k of the record's
\* variants map, the enumeration projection of the record holds exactly one
\* triple whose key is k, and its grapheme is the payload stored under k.
C1_EveryVariantEnumeratedOnce ==
    pc = "rendered" =>
        \A i \in 1..Len(out.recs) :
            \A k \in DOMAIN out.recs[i].variants :
                /\ Cardinality({j \in 1..Len(lists[i]) : lists[i][j].kind = k}) = 1
                /\ \A j \in 1..Len(lists[i]) :
                        lists[i][j].kind = k =>
                            lists[i][j].grapheme = out.recs[i].variants[k]

\* C2: scrub of a family with at least one variant never aborts, and it
\* returns at least one record and at most as many records as the family
\* has variants.
C2_ScrubNeverAborts ==
    out # <<>> =>
        /\ ~out.panicked
        /\ Len(out.recs) >= 1
        /\ Len(out.recs) <= Cardinality(Keys)

\* C3: the records one scrub returns carry pairwise distinct identifiers.
C3_DistinctIdentifiers ==
    Scrubbed =>
        \A i, j \in 1..Len(out.recs) :
            i # j => out.recs[i].identifier # out.recs[j].identifier

MaxLevel(list) ==
    CHOOSE m \in {default_level(list[j].kind) : j \in 1..Len(list)} :
        \A j \in 1..Len(list) : default_level(list[j].kind) <= m

\* the triples of list whose key has the level m
OnLevel(list, m) ==
    {list[j] : j \in {j \in 1..Len(list) : default_level(list[j].kind) = m}}

\* C4: default_variants of a scrubbed record returns exactly the triples of
\* the enumeration whose key has the greatest default_level among all leaves
\* of the record; a key that specifies a strict superset of another leaf's
\* slots is never among them.
C4_DefaultVariantsMostGeneral ==
    pc = "rendered" =>
        \A i \in 1..Len(out.recs) :
            /\ defaults[i] = OnLevel(lists[i], MaxLevel(lists[i]))
            /\ \A d \in defaults[i] : \A j \in 1..Len(lists[i]) :
                    default_level(lists[i][j].kind) <= default_level(d.kind)

\* a rendered record whose leaves lie on more than one level
C4_Witness ==
    /\ pc = "rendered"
    /\ \E i \in 1..Len(out.recs) :
            /\ \E j \in 1..Len(lists[i]) :
                    default_level(lists[i][j].kind) < MaxLevel(lists[i])
            /\ Cardinality(defaults[i]) >= 1
            /\ Cardinality(defaults[i]) < Len(lists[i])

\* C5: when scrub returns exactly one record, scrub of that record returns
\* one record again, with the same keys and the same payloads.
C5_ScrubIdempotent ==
    again # <<>> =>
        /\ ~again.panicked
        /\ Len(again.recs) = 1
        /\ again.recs[1].variants = out.recs[1].variants
        /\ Leaves(again.recs[1].grouping[1]) = Leaves(Tree(1))

\* the single record of a family of several variants was scrubbed again
C5_Witness ==
    /\ pc = "rescrubbed"
    /\ ~IsLeaf(Tree(1))
    /\ Cardinality(DOMAIN out.recs[1].variants) > 1

ScenarioA == Block({0}, {NoPair}, SeqRange(tone_only_primary) \cup {NoPair})

\* C6: a family of one key with no tone and five keys with the single tones
\* scrubs to one record whose tree is a node tagged "Tone", with the no-tone
\* key as its default and the five tone keys as its subs in tone order.
C6_ScenarioA ==
    (out # <<>> /\ Keys = ScenarioA) =>
        /\ ~out.panicked
        /\ Len(out.recs) = 1
        /\ ~IsLeaf(Tree(1))
        /\ Tree(1).type_name = "Tone"
        /\ Tree(1).def = <<Leaf(PersonKind(0, NoPair, NoPair))>>
        /\ Len(Tree(1).subs) = 5
        /\ \A t \in ToneALL :
                Tree(1).subs[t].sub = Leaf(PersonKind(0, NoPair, <<t, 0>>))

C6_Witness ==
    /\ pc = "scrubbed"
    /\ Keys = ScenarioA
    /\ Len(out.recs) = 1

ScenarioB == Block({0}, SeqRange(people_only_two), SeqRange(tone_with_secondary))

\* C7: a family of the three Pair values, each with all 25 ordered tone
\* combinations and no hair, scrubs to one record whose tree is a node
\* tagged "Pair" with three subs, each a node tagged "TonePair" with 25 subs.
C7_ScenarioB ==
    (out # <<>> /\ Keys = ScenarioB) =>
        /\ ~out.panicked
        /\ Len(out.recs) = 1
        /\ ~IsLeaf(Tree(1))
        /\ Tree(1).type_name = "Pair"
        /\ Tree(1).def = <<>>
        /\ Len(Tree(1).subs) = 3
        /\ \A p \in 1..3 :
                LET sub == Tree(1).subs[p].sub
                IN  /\ ~IsLeaf(sub)
                    /\ sub.type_name = "TonePair"
                    /\ Len(sub.subs) = 25
                    /\ Leaves(sub) = Block({0}, {<<Two(p), 0>>},
                                           SeqRange(tone_with_secondary))

C7_Witness ==
    /\ pc = "scrubbed"
    /\ Keys = ScenarioB
    /\ Tree(1).type_name = "Pair"

OccurringHair == {k.hair : k \in Keys} \ {0}

\* words w occur in id, one after the other
HasWords(id, w) ==
    \E n \in 0..(Len(id) - Len(w)) : \A j \in 1..Len(w) : id[n + j] = w[j]

WithHair(h) == generate_constant(<<"with">> \o Hair_name(h))

\* C8: a family in which exactly two of the six hair values occur scrubs to
\* at least two records; no tree holds a node tagged "Hair"; the variants of
\* each of the two hair values lie in a record whose identifier has
\* " with <hair name>" of that hair value appended, and records of the two
\* hair values carry distinct identifiers.
C8_ScenarioC ==
    (out # <<>> /\ Cardinality(OccurringHair) = 2) =>
        /\ ~out.panicked
        /\ Len(out.recs) >= 2
        /\ \A i \in 1..Len(out.recs) : "Hair" \notin NodeTags(Tree(i))
        /\ \A k \in Keys :
                k.hair # 0 =>
                    \E i \in 1..Len(out.recs) :
                        /\ k \in Leaves(Tree(i))
                        /\ k \in DOMAIN out.recs[i].variants
                        /\ HasWords(out.recs[i].identifier, WithHair(k.hair))
        /\ \A i, j \in 1..Len(out.recs) :
                (\E k \in Leaves(Tree(i)), l \in Leaves(Tree(j)) :
                    k.hair # 0 /\ l.hair # 0 /\ k.hair # l.hair)
                    => out.recs[i].identifier # out.recs[j].identifier

-----------------------------------------------------------------------------
(* Properties of validate *)

\* the values of the dimension's slot the bucket holds
BucketValues == {get_selector(call.dim, e.sel)[1] : e \in call.entries}

\* the declared positions of the sets all of whose values the bucket holds
Satisfied ==
    {i \in 1..Len(supported_sets(call.dim)) :
        SeqRange(supported_sets(call.dim)[i].set) \subseteq BucketValues}

FirstSatisfied == CHOOSE i \in Satisfied : \A j \in Satisfied : i <= j

\* C9: validate takes the first set, in declared order, all of whose values
\* the bucket holds, and builds the node from it whatever later sets are
\* satisfied too; a tone bucket with all 25 tone pairs is tagged "TonePair"
\* although the set of the five single tones is satisfied as well.
C9_FirstSatisfiedSetWins ==
    (pc = "validated" /\ Satisfied # {}) =>
        /\ \E e \in result :
                /\ result = {e}
                /\ e.sel = call.gen
                /\ ~IsLeaf(e.tree)
                /\ e.tree.type_name = supported_sets(call.dim)[FirstSatisfied].type_name
                /\ e.tree = JoinEntries(call.dim, call.gen, call.entries,
                                        supported_sets(call.dim)[FirstSatisfied])
        /\ (call.dim = "tone" /\ SeqRange(tone_with_secondary) \subseteq BucketValues)
                => \A e \in result : e.tree.type_name = "TonePair"

\* a tone bucket of all 25 tone pairs, which satisfies the later sets too
C9_Witness ==
    /\ pc = "validated"
    /\ call.dim = "tone"
    /\ SeqRange(tone_with_secondary) \subseteq BucketValues
    /\ Cardinality(Satisfied) >= 2
    /\ \E e \in result : e.tree.type_name = "TonePair"

\* C10: when the bucket holds no set of the dimension in full, validate
\* returns the bucket's (selector, subtree) pairs as they are: none added,
\* dropped or changed, the member of the default level among them.
C10_NoSetReturnsBucket ==
    (pc = "validated" /\ Satisfied = {}) => result = call.entries

\* an unmatched bucket of several members, one of them on the default level
C10_Witness ==
    /\ pc = "validated"
    /\ Satisfied = {}
    /\ Cardinality(call.entries) >= 2
    /\ NoneOf(call.dim) \in BucketValues
    /\ result = call.entries

\* the set validate matches
Matching == supported_sets(call.dim)[FirstSatisfied]

\* the subtrees of the members that hold a value of the matched set
MatchedTrees ==
    {e.tree : e \in {m \in call.entries :
                        get_selector(call.dim, m.sel)[1] \in SeqRange(Matching.set)}}

\* C28: the node validate builds from a matched set has one sub for each
\* value of the set and no other: as many subs as the set has values (the
\* size the runtime container indexes into), each the subtree of a member
\* holding a value of the set; no member outside the set is placed into it.
C28_OneSubPerValue ==
    (pc = "validated" /\ Satisfied # {}) =>
        \A e \in result :
            /\ Len(e.tree.subs) = Len(Matching.set)
            /\ {e.tree.subs[i].sub : i \in 1..Len(e.tree.subs)} = MatchedTrees

-----------------------------------------------------------------------------
(* Properties of the levels of PersonEmoji::qualify *)

Dims == {"hair", "people", "tone"}

OuterDims(dim) ==
    CASE dim = "hair" -> {}
      [] dim = "people" -> {"hair"}
      [] dim = "tone" -> {"hair", "people"}

InnerDims(dim) == (Dims \ {dim}) \ OuterDims(dim)

LeafEntries == {Entry(SelectorFrom(k), Leaf(k)) : k \in Keys}

\* the entries Qualifier::qualify is handed at the level of dim
LevelSubs(dim) ==
    CASE dim = "tone" -> LeafEntries
      [] dim = "people" -> Qualifier_qualify("tone", LeafEntries)
      [] dim = "hair" ->
            Qualifier_qualify("people", Qualifier_qualify("tone", LeafEntries))

\* LevelSubs of the three dimensions, each level computed once
Levels ==
    LET people == Qualifier_qualify("tone", LeafEntries)
    IN  [tone |-> LeafEntries,
         people |-> people,
         hair |-> Qualifier_qualify("people", people)]

\* the (selector, tree) pairs scrub built its records from
Outputs == {Entry(out.classes[i], Tree(i)) : i \in 1..Len(out.recs)}

SameBucket(dim, e1, e2) == BucketKey(dim, e1.sel) = BucketKey(dim, e2.sel)

\* C11 as stated: at every level the bucket key of an entry is its selector
\* with the current and all inner dimensions wildcarded, so entries that
\* agree on every outer dimension share a bucket whatever their inner slots.
C11_BucketWildcardsInner ==
    pc = "scrubbed" =>
        \A dim \in Dims : \A e1 \in LevelSubs(dim) :
            /\ \A d \in InnerDims(dim) \cup {dim} : BucketKey(dim, e1.sel)[d] = <<>>
            /\ \A e2 \in LevelSubs(dim) :
                    (\A d \in OuterDims(dim) : e1.sel[d] = e2.sel[d])
                        => SameBucket(dim, e1, e2)

\* among the entries subs of the level of dim, a bucket key wildcards dim
\* alone, and two entries share a bucket exactly when the other slots agree
WildcardsCurrentAt(dim, subs) ==
    /\ \A e \in subs :
            /\ BucketKey(dim, e.sel)[dim] = <<>>
            /\ \A d \in Dims \ {dim} : BucketKey(dim, e.sel)[d] = e.sel[d]
    /\ \A e1, e2 \in subs :
            SameBucket(dim, e1, e2) <=> \A d \in Dims \ {dim} : e1.sel[d] = e2.sel[d]

WildcardsCurrentOver(levels) ==
    \A dim \in Dims : WildcardsCurrentAt(dim, levels[dim])

\* C11 amended: the bucket key of an entry is its selector with the current
\* dimension wildcarded and every other slot kept (an inner slot is a
\* wildcard only where the inner level joined it); two entries share a bucket
\* exactly when they agree on every slot but the one of the current dimension.
C11_BucketWildcardsCurrent ==
    pc = "scrubbed" => WildcardsCurrentOver(Levels)

\* at the people level, entries of one hair with different unjoined tones
C11_Witness ==
    /\ pc = "scrubbed"
    /\ \E e1, e2 \in LevelSubs("people") :
            /\ e1.sel.hair = e2.sel.hair
            /\ e1.sel.tone # <<>> /\ e2.sel.tone # <<>>
            /\ e1.sel.tone # e2.sel.tone
            /\ ~SameBucket("people", e1, e2)

\* every node of a tree with each of its children (default and subs)
RECURSIVE Parts(_)
Parts(tree) ==
    IF IsLeaf(tree) THEN {}
    ELSE LET children == {tree.subs[i].sub : i \in 1..Len(tree.subs)}
                            \cup (IF tree.def # <<>> THEN {tree.def[1]} ELSE {})
         IN  {[tag |-> tree.type_name, child |-> c] : c \in children}
                \cup UNION {Parts(c) : c \in children}

TagsOf(dim) == {supported_sets(dim)[i].type_name : i \in 1..Len(supported_sets(dim))}

\* the bucket of entry e among subs holds every value of some set of dim
BucketMatches(dim, subs, e) ==
    LET values == {k.sel[dim][1] : k \in {k \in subs : SameBucket(dim, k, e)}}
    IN  \E i \in 1..Len(supported_sets(dim)) :
            SeqRange(supported_sets(dim)[i].set) \subseteq values

\* e was joined, as it is, under a node built at a dimension outside dim
JoinedOutside(dim, e) ==
    \E o \in Outputs : \E part \in Parts(o.tree) :
        /\ part.child = e.tree
        /\ \E d \in OuterDims(dim) : part.tag \in TagsOf(d)

\* C12 as stated: every member of a bucket that matches no set at its
\* dimension ends up as an output record of its own, never under a node
\* built at an outer dimension.
C12_UnmatchedMemberIsRecord ==
    pc = "scrubbed" =>
        \A dim \in Dims :
            LET subs == LevelSubs(dim)
            IN  \A e \in subs : ~BucketMatches(dim, subs, e) => e \in Outputs

\* a member of a bucket of dim that matches no set is one of outputs or a
\* child, in parts, of an outer node only
UnmatchedIn(dim, bucket, outputs, parts) ==
    (\A i \in 1..Len(supported_sets(dim)) :
        ~(SeqRange(supported_sets(dim)[i].set)
            \subseteq {k.sel[dim][1] : k \in bucket})) =>
        \A e \in bucket :
            /\ e \in outputs
                \/ \E part \in parts :
                        /\ part.child = e.tree
                        /\ \E d \in OuterDims(dim) : part.tag \in TagsOf(d)
            /\ \A part \in parts :
                    part.child = e.tree => part.tag \notin TagsOf(dim)
            /\ dim = "hair" => e \in outputs

\* the same of every bucket among the entries subs of the level of dim
UnmatchedAt(dim, subs, outputs, parts) ==
    \A key \in {BucketKey(dim, e.sel) : e \in subs} :
        UnmatchedIn(dim, {e \in subs : BucketKey(dim, e.sel) = key}, outputs, parts)

UnmatchedOver(levels, outputs, parts) ==
    \A dim \in Dims : UnmatchedAt(dim, levels[dim], outputs, parts)

\* C12 amended: a member of a bucket that matches no set at its dimension is
\* handed on unchanged; it ends up as an output record of its own, or as a
\* sub or the default of a node built at an outer dimension whose bucket
\* matched, and never under a node of the dimension that did not match.
C12_UnmatchedMemberRecordOrOuter ==
    pc = "scrubbed" =>
        UnmatchedOver(Levels, Outputs, UNION {Parts(o.tree) : o \in Outputs})

\* a leaf whose tone bucket matched no set, joined under a people node
C12_Witness ==
    /\ pc = "scrubbed"
    /\ \E e \in LevelSubs("tone") :
            /\ ~BucketMatches("tone", LevelSubs("tone"), e)
            /\ e \notin Outputs
            /\ JoinedOutside("tone", e)

-----------------------------------------------------------------------------
(* Properties of the node of a TonePair bucket *)

ToneLeaf(v) == InnerTree("tone", v, "leaf")

\* the bucket holds the 25 members of the TonePair set and at most the default
ExactTonePairBucket ==
    /\ call # <<>>
    /\ call.dim = "tone"
    /\ BucketValues \ {NoPair} = SeqRange(tone_with_secondary)

\* C13: a tone bucket of exactly the 25 TonePair members (and an optional
\* default) gives a node whose sub at position left * 5 + right is the
\* variant of tones (left, right), the member (t, none) standing at
\* t * 5 + t; tone(t) and tone((l, r)) look these variants up.
C13_TonePairIndexing ==
    (pc \in {"validated", "aborted"} /\ ExactTonePairBucket) =>
        /\ pc = "validated"
        /\ \E e \in result :
            /\ result = {e}
            /\ ~IsLeaf(e.tree)
            /\ e.tree.type_name = "TonePair"
            /\ Len(e.tree.subs) = 25
            /\ \A t \in ToneALL :
                    With_tone_pair(e.tree.subs, TonePair_from_tone(t)).sub
                        = ToneLeaf(<<t, 0>>)
            /\ \A l, r \in ToneALL :
                    l # r => With_tone_pair(e.tree.subs, <<l, r>>).sub = ToneLeaf(<<l, r>>)
            /\ \A l, r \in ToneALL :
                    e.tree.subs[TonePair_to_id(l, r) + 1].const_acc = TonePairSource(l, r)
            /\ (NoPair \in BucketValues) <=> (e.tree.def = <<ToneLeaf(NoPair)>>)

\* such a bucket, with its default, was joined
C13_Witness ==
    /\ pc = "validated"
    /\ ExactTonePairBucket
    /\ NoPair \in BucketValues
    /\ \E e \in result : With_tone_pair(e.tree.subs, <<3, 3>>).sub = ToneLeaf(<<3, 0>>)

-----------------------------------------------------------------------------
(* Properties of the shape of the trees of scrub *)

\* the place of a node tag in the order of the dimensions, 0 for no tag
DimRank(tag) ==
    CASE tag = "Hair" -> 1
      [] tag \in {"Family", "OneOrTwo", "Pair", "Gender"} -> 2
      [] tag \in {"TonePair", "TonePairReduced", "Tone"} -> 3
      [] OTHER -> 0

\* the number of nodes on the longest path from the root to a leaf
RECURSIVE Depth(_)
Depth(tree) ==
    IF IsLeaf(tree) THEN 0
    ELSE LET below == {Depth(tree.subs[i].sub) : i \in 1..Len(tree.subs)}
                        \cup (IF tree.def # <<>> THEN {Depth(tree.def[1])} ELSE {0})
         IN  1 + CHOOSE d \in below : \A e \in below : e <= d

\* C24: in every tree scrub returns, every node carries a tag of hair, of
\* people or of tone, and every node below a node carries a tag of a later
\* dimension: along a path the tags go hair, people, tone with each
\* dimension at most once, at most three nodes lie above a leaf, and below
\* a tone node there are leaves only.
C24_DimensionOrder ==
    Scrubbed =>
        \A i \in 1..Len(out.recs) :
            /\ \A tag \in NodeTags(Tree(i)) : DimRank(tag) \in 1..3
            /\ \A p \in Parts(Tree(i)) :
                    \A tag \in NodeTags(p.child) : DimRank(p.tag) < DimRank(tag)
            /\ Depth(Tree(i)) <= 3

\* a tree of three nodes above its leaves
C24_Witness ==
    /\ Scrubbed
    /\ \E i \in 1..Len(out.recs) :
            /\ Depth(Tree(i)) = 3
            /\ Tree(i).type_name = "Hair"

\* the number of leaves of tree, a key counted as often as it is a leaf
RECURSIVE LeafCount(_)
LeafCount(tree) ==
    IF IsLeaf(tree) THEN 1
    ELSE LET RECURSIVE InSubs(_)
             InSubs(i) == IF i > Len(tree.subs) THEN 0
                          ELSE LeafCount(tree.subs[i].sub) + InSubs(i + 1)
         IN  (IF tree.def # <<>> THEN LeafCount(tree.def[1]) ELSE 0) + InSubs(1)

\* the number of leaves of the trees of records i.. of scrub
RECURSIVE LeafCountFrom(_)
LeafCountFrom(i) ==
    IF i > Len(out.recs) THEN 0
    ELSE LeafCount(Tree(i)) + LeafCountFrom(i + 1)

\* C25: the trees scrub returns partition the keys of the input record:
\* every key is a leaf, every leaf is a key, and the trees have as many
\* leaves as there are keys, so no key is a leaf of two trees or twice a
\* leaf of one.
C25_LeafPartition ==
    Scrubbed =>
        /\ UNION {Leaves(Tree(i)) : i \in 1..Len(out.recs)} = Keys
        /\ LeafCountFrom(1) = Cardinality(Keys)

\* a scrub that returns a node with a default beside a record of one leaf
C25_Witness ==
    /\ Scrubbed
    /\ Len(out.recs) >= 2
    /\ \E i \in 1..Len(out.recs) : ~IsLeaf(Tree(i)) /\ Tree(i).def # <<>>
    /\ \E i \in 1..Len(out.recs) : IsLeaf(Tree(i))

\* C26: the selector a record of scrub was built from selects every leaf
\* of the record's tree, so every leaf is a key of the record's variants
\* map, and every triple of full_emoji_list and of default_variants names
\* a key the map holds: no lookup self.variants[&kind] fails.
C26_LeavesAreVariants ==
    /\ Scrubbed =>
            \A i \in 1..Len(out.recs) :
                \A k \in Leaves(Tree(i)) :
                    /\ selects(out.classes[i], k)
                    /\ k \in DOMAIN out.recs[i].variants
    /\ pc = "rendered" =>
            \A i \in 1..Len(out.recs) :
                /\ \A j \in 1..Len(lists[i]) :
                        lists[i][j].kind \in DOMAIN out.recs[i].variants
                /\ \A t \in defaults[i] : t.kind \in DOMAIN out.recs[i].variants

\* the lists of two records, one of them built from a selector with a
\* wildcard, have been rendered
C26_Witness ==
    /\ pc = "rendered"
    /\ Len(out.recs) >= 2
    /\ \E i \in 1..Len(out.recs) :
            /\ out.classes[i].tone = <<>>
            /\ Len(lists[i]) >= 2
            /\ defaults[i] # {}

\* C27: in every tree scrub returns, the default and the subs of every
\* node project to one type, so the constructor projection of a scrubbed
\* record passes its assertion on the sibling types.
C27_SiblingTypesAgree ==
    Scrubbed => \A i \in 1..Len(out.recs) : ~to_type_n_value(Tree(i)).panicked

-----------------------------------------------------------------------------
(* Subgroup::sort *)

\* C14: for the same lines, Subgroup::sort leaves the same constants, the
\* same standalone emojis and, under each identifier, the same record
\* (variants and tree) whatever order the hash maps iterate in: a run in
\* another process panics exactly when the first did and otherwise leaves
\* an equal Subgroup.
C14_SortDeterministic ==
    pc = "compared" =>
        /\ rerun.sorted.panicked = rerun.panicked
        /\ ~rerun.panicked =>
                /\ rerun.sorted.constants = subgroup.constants
                /\ rerun.sorted.emojis = subgroup.emojis
                /\ rerun.sorted.person_emojis = subgroup.person_emojis

\* the standalone emoji the family under key k is folded with: the one
\* named k, or else the one named by k without the PERSON word
Matched(self, k) ==
    IF k \in DOMAIN self.emojis THEN {k}
    ELSE {shorten(k)} \cap DOMAIN self.emojis

\* the families that hold emoji id of `self` as their default variant
HoldAsDefault(self, folded, id) ==
    {j \in DOMAIN folded.person_emojis :
        /\ id \in Matched(self, j)
        /\ PersonKind_default \in DOMAIN folded.person_emojis[j].variants
        /\ folded.person_emojis[j].variants[PersonKind_default] = self.emojis[id]}

\* C15: when the first loop of sort has run, every standalone emoji that
\* the key of a family names, as it is or with the PERSON word stripped, is
\* gone from the standalone map and is the variant under the all-absent
\* key of exactly one of the families that name it; after sort it is no
\* standalone emoji and no constant resolves to it as one.
C15_StandaloneFolded ==
    pc \in {"sorted", "panicked"} =>
        \E folded \in {sort_folded(before)} :
            ~folded.panicked =>
                \A k \in DOMAIN before.person_emojis :
                    \A id \in Matched(before, k) :
                        /\ id \notin DOMAIN folded.emojis
                        /\ Cardinality(HoldAsDefault(before, folded, id)) = 1
                        /\ pc = "sorted" =>
                                /\ id \notin DOMAIN subgroup.emojis
                                /\ \A i \in 1..Len(subgroup.constants) :
                                        subgroup.constants[i] = id =>
                                            emoji_iter(subgroup)[i] = "PersonEmoji"

\* two families name the same standalone emoji, one of them by its key
\* without the PERSON word, and sort has returned
C15_Witness ==
    /\ pc = "sorted"
    /\ \E k \in DOMAIN before.person_emojis, j \in DOMAIN before.person_emojis :
            /\ k # j
            /\ Matched(before, k) = {shorten(k)}
            /\ shorten(k) # k
            /\ Matched(before, j) = Matched(before, k)

\* the keys of self.person_emojis that sort merges into key `short`
MergedInto(self, short) ==
    {j \in DOMAIN self.person_emojis : shorten(j) = short /\ j # short}

\* map `whole` holds every entry of map `part`
HoldsAll(whole, part) ==
    \A kind \in DOMAIN part : kind \in DOMAIN whole /\ whole[kind] = part[kind]

\* C16: when the merge loop of sort has run, for every two families under
\* keys k and shorten(k) # k no record is left under k and the record under
\* shorten(k) holds the union of both variant maps: every entry of either
\* and no key of another family; when sort has returned, every variant of
\* both is a leaf of some record the scrub of the merged record returns.
C16_FamiliesMerged ==
    pc \in {"sorted", "panicked"} =>
        \E folded \in {sort_folded(before)} :
            \E merged \in {merge_all(folded)} :
                ~merged.panicked =>
                    \A short \in DOMAIN folded.person_emojis :
                        \A k \in MergedInto(folded, short) :
                            /\ k \notin DOMAIN merged.person_emojis
                            /\ HoldsAll(merged.person_emojis[short].variants,
                                        folded.person_emojis[k].variants)
                            /\ HoldsAll(merged.person_emojis[short].variants,
                                        folded.person_emojis[short].variants)
                            /\ DOMAIN merged.person_emojis[short].variants =
                                    UNION {DOMAIN folded.person_emojis[j].variants :
                                            j \in MergedInto(folded, short) \cup {short}}
                            /\ pc = "sorted" =>
                                    \E done \in {scrub(merged.person_emojis[short])} :
                                        \A kind \in DOMAIN merged.person_emojis[short].variants :
                                            \E i \in 1..Len(done.recs) :
                                                kind \in Leaves(done.recs[i].grouping[1])

\* C17: no step replaces a variant a family already holds and goes on: a
\* line appended to a family leaves the variants the family held as they
\* were unless the process aborts, and a sort in which an insert of the
\* standalone fold or of the family merge found the key present panics.
C17_DuplicateInsertIsFatal ==
    [][/\ (pc = "collect" /\ pc' = "collect") =>
            \A k \in DOMAIN subgroup.person_emojis :
                HoldsAll(subgroup'.person_emojis[k].variants,
                         subgroup.person_emojis[k].variants)
       /\ (pc = "collect" /\ pc' \in {"sorted", "panicked"}) =>
            \E merged \in {sort_merged(subgroup)} :
                merged.replaced => merged.panicked]_vars

\* C18: when sort has returned, constants is strictly ascending, its
\* elements are exactly the keys of emojis and of person_emojis, and
\* emoji_iter finds every constant in one of the two maps.
C18_ConstantsSortedAndComplete ==
    pc = "sorted" =>
        /\ \A i \in 1..(Len(subgroup.constants) - 1) :
                StrLess(subgroup.constants[i], subgroup.constants[i + 1])
        /\ SeqRange(subgroup.constants) =
                DOMAIN subgroup.emojis \cup DOMAIN subgroup.person_emojis
        /\ \A i \in 1..Len(subgroup.constants) : emoji_iter(subgroup)[i] # NotFound

\* sort has returned a Subgroup with a standalone emoji and two records
C18_Witness ==
    /\ pc = "sorted"
    /\ DOMAIN subgroup.emojis # {}
    /\ Cardinality(DOMAIN subgroup.person_emojis) >= 2
    /\ Len(subgroup.constants) >= 3

\* C19: until sort no family record holds a tree and a projection of a
\* record panics; when sort has returned every record of person_emojis
\* holds one tree and no projection of a record panics.
C19_TreeAfterSort ==
    [][/\ pc = "collect" =>
            /\ \A k \in DOMAIN subgroup.person_emojis :
                    subgroup.person_emojis[k].grouping = <<>>
            /\ pc' \in {"projected", "projection panicked"} =>
                    pc' = "projection panicked" /\ result' = Unscrubbed
       /\ pc' = "sorted" =>
            \A k \in DOMAIN subgroup'.person_emojis :
                Len(subgroup'.person_emojis[k].grouping) = 1
       /\ pc = "sorted" =>
            (pc' \in {"projected", "projection panicked"} => pc' = "projected")]_vars

\* a record has been projected after sort
C19_Witness ==
    /\ pc = "projected"
    /\ Len(result.list) >= 2

-----------------------------------------------------------------------------
(* EmojiTextParser *)

\* the text with its alias spans replaced, char by char from the left: a
\* colon, a known alias and the next colon become the grapheme, every
\* other char is kept
RECURSIVE Replaced(_)
Replaced(text) ==
    IF text = <<>> THEN <<>>
    ELSE IF \E n \in 2..Len(text) :
                /\ text[1] = ":"
                /\ text[n] = ":"
                /\ \A i \in 2..(n - 1) : text[i] # ":"
                /\ SubSeq(text, 2, n - 1) \in Aliases
    THEN LET n == CHOOSE n \in 2..Len(text) :
                        text[n] = ":" /\ \A i \in 2..(n - 1) : text[i] # ":"
         IN  <<Emoji_grapheme(SubSeq(text, 2, n - 1))>>
                \o Replaced(SubSeq(text, n + 1, Len(text)))
    ELSE <<text[1]>> \o Replaced(Tail(text))

\* some two colons of the text enclose a known alias
HoldsAlias(text) ==
    \E i \in 1..Len(text), j \in 1..Len(text) :
        /\ i < j
        /\ text[i] = ":"
        /\ text[j] = ":"
        /\ SubSeq(text, i + 1, j - 1) \in Aliases

\* C20: the fragments the parser yields, concatenated, are the text with
\* every recognised span of colon, alias, colon replaced by its grapheme
\* and every other char kept once in order; a text in which no two colons
\* enclose a known alias comes out as it went in.  The parser never panics.
C20_FragmentsGiveText ==
    /\ pc # "aborted"
    /\ pc = "collected" =>
            /\ FlattenSeq(fragments) = Replaced(parser.original)
            /\ ~HoldsAlias(parser.original) =>
                    FlattenSeq(fragments) = parser.original

\* a text with an alias that is replaced and a colon that is kept
C20_Witness ==
    /\ pc = "collected"
    /\ \E i \in 1..Len(fragments) : fragments[i] = <<Emoji_grapheme(<<"a">>)>>
    /\ \E i \in 1..Len(fragments) : Len(fragments[i]) >= 2 /\ fragments[i][1] = ":"
    /\ Len(parser.original) = MaxText

\* the indices of the colons at or behind next_pos
ColonsAhead(self) ==
    {j \in self.next_pos..(Len(self.original) - 1) : self.original[j + 1] = ":"}

\* the closing colon of the candidate that the colon before next_pos opens
ClosingColon(self) ==
    CHOOSE j \in ColonsAhead(self) : \A k \in ColonsAhead(self) : j <= k

\* the text between the opening colon and the closing colon
Between(self) == Slice(self.original, self.next_pos, ClosingColon(self))

\* C21: a call of next that starts at an opening colon with a closing colon
\* ahead yields, when the text between the two is a known alias, the
\* grapheme, and goes on behind the closing colon in plain text; when it is
\* not, it yields the text from the opening colon up to but without the
\* closing colon and takes the closing colon as the next opening colon.
C21_ClosingColonReopens ==
    [][(/\ pc = "parsing"
        /\ parser.emoji_fragment_start
        /\ ColonsAhead(parser) # {})
       => /\ parser'.next_pos = ClosingColon(parser) + 1
          /\ IF Between(parser) \in Aliases
             THEN /\ fragments' = Append(fragments, <<Emoji_grapheme(Between(parser))>>)
                  /\ ~parser'.emoji_fragment_start
             ELSE /\ fragments' = Append(fragments,
                        Slice(parser.original, parser.next_pos - 1, ClosingColon(parser)))
                  /\ parser'.emoji_fragment_start]_vars

\* a misspelled name whose closing colon opens a known alias, and an alias
\* followed by plain text
C21_Witness ==
    /\ pc = "collected"
    /\ \E i \in 1..(Len(fragments) - 2) :
            /\ Len(fragments[i]) >= 1
            /\ fragments[i][1] = ":"
            /\ fragments[i + 1] = <<Emoji_grapheme(<<"a">>)>>
            /\ Len(fragments[i + 2]) >= 1
            /\ fragments[i + 2][1] # ":"

-----------------------------------------------------------------------------
(* regional_flag *)

\* C22: regional_flag panics only on a code that holds a char outside
\* ASCII; on every ASCII code it returns the black flag, one tag char per
\* letter or digit, and the end tag.
C22_PanicsOnlyOutsideAscii ==
    (pc \in {"flag", "flag panicked"} /\ \A i \in 1..Len(call) : char_is_ascii(call[i]))
        => /\ ~result.panicked
           /\ Head(result.flag) = 127988
           /\ result.flag[Len(result.flag)] = 917631
           /\ Len(result.flag) = 2 + Cardinality({i \in 1..Len(call) :
                                        is_ascii_alphanumeric(call[i])})

-----------------------------------------------------------------------------
(* PersonKind::default_level *)

\* the slots of a key in the order of their rank, 1 for an unset slot:
\* tone, secondary tone, people, secondary people, hair
Unset(kind) ==
    << IF kind.tone = NoPair THEN 1 ELSE 0,
       IF kind.tone[2] = 0 THEN 1 ELSE 0,
       IF kind.people = NoPair THEN 1 ELSE 0,
       IF kind.people[2] = 0 THEN 1 ELSE 0,
       IF kind.hair = 0 THEN 1 ELSE 0 >>

\* a is before b in the lexicographic order of tuples of one length
LexLess(a, b) ==
    \E i \in 1..Len(a) :
        /\ a[i] < b[i]
        /\ \A j \in 1..(i - 1) : a[j] = b[j]

\* C23: the level of a key is the sum of the weights of its unset slots
\* (tone 16, secondary tone 8, people 4, secondary people 2, hair 1, the
\* secondary of an absent slot being unset too); it lies in 0..31 and is 31
\* for the all-absent key only; keys rank by level as their unset slots
\* rank lexicographically, so a key without tone is above every key with one.
C23_LevelRanksByAbsence ==
    pc = "level" =>
        /\ result.level = 16 * Unset(call)[1] + 8 * Unset(call)[2] + 4 * Unset(call)[3]
                            + 2 * Unset(call)[4] + Unset(call)[5]
        /\ result.level \in 0..31
        /\ result.level = 31 <=> call = PersonKind(0, NoPair, NoPair)
        /\ \A other \in LevelKinds :
                /\ default_level(other) < result.level <=> LexLess(Unset(other), Unset(call))
                /\ (call.tone = NoPair /\ other.tone # NoPair)
                        => default_level(other) < result.level

\* a key with a people pair and no tone, ranked above a key that lacks
\* everything but a tone
C23_Witness ==
    /\ pc = "level"
    /\ call = PersonKind(1, <<1, 2>>, NoPair)
    /\ result.level > default_level(PersonKind(0, NoPair, <<1, 0>>))

\* C29: the parser terminates.  It yields at most len(text) + 1 fragments;
\* every call that yields a fragment moves next_pos forward, but for the
\* one call that finds the parser behind a last colon at the end of the
\* text, which clears emoji_fragment_start and leaves a parser that
\* returns None; and a parser that has returned None returns None on every
\* later call.
C29_ParserTerminates ==
    /\ [](pc \in {"parsing", "collected", "fused"}
            => Len(fragments) <= Len(parser.original) + 1)
    /\ [](pc = "fused" => result.item = <<>>)
    /\ [][(pc = "parsing" /\ fragments' # fragments)
            => \/ parser'.next_pos > parser.next_pos
               \/ /\ parser.emoji_fragment_start
                  /\ parser.next_pos = Len(parser.original)
                  /\ parser'.next_pos = parser.next_pos
                  /\ ~parser'.emoji_fragment_start]_vars

\* a text of MaxText colons has given MaxText + 1 fragments, the last of
\* them by the call that clears emoji_fragment_start, and a call after None
\* has been made
C29_Witness ==
    /\ pc = "fused"
    /\ Len(parser.original) = MaxText
    /\ Len(fragments) = MaxText + 1
    /\ parser.original[MaxText] = ":"

\* C30: between any two calls of next, next_pos lies in 0..len(text), and
\* while emoji_fragment_start is set next_pos is at least 1 and the char
\* before next_pos is a colon; so the assertion next_pos > 0 of the emoji
\* branch holds on every call and next_pos - 1 is an index of the text.
C30_NextPosInText ==
    /\ pc # "aborted"
    /\ parser.next_pos \in 0..Len(parser.original)
    /\ parser.emoji_fragment_start =>
            /\ parser.next_pos >= 1
            /\ parser.original[parser.next_pos] = ":"

\* the parser stands behind a colon that ends the text, a fragment yielded
C30_Witness ==
    /\ pc = "parsing"
    /\ parser.emoji_fragment_start
    /\ parser.next_pos = Len(parser.original)
    /\ Len(fragments) >= 2

====
